---- MODULE Spec2Model ----
(***************************************************************************)
(* State-machine model of the transit-departure display sketch             *)
(* (src/sketch/sketch.ino): the RBL acquisition cache, the JSON-to-Monitor *)
(* parser, the per-line assignment and sort, the toggle/scroll state of    *)
(* the renderer, and the two FreeRTOS tasks sharing dataMutex.             *)
(*                                                                         *)
(* Conventions.  An Arduino String is the sequence of its bytes, so that    *)
(* length, trim, case folding and substring are computed as String         *)
(* computes them.  A byte below 0x80 is written as its ASCII character     *)
(* (<<"O","p","e","r">>), a byte from 0x80 on as its two hexadecimal       *)
(* digits: the text T, u-umlaut, r in UTF-8 is <<"T","C3","BC","r">>.      *)
(* Time is millis() in milliseconds; the clock advances in steps of        *)
(* Quantum, when each task waits; the render task, whose delay is shorter  *)
(* than a step, may run any number of times between two steps.             *)
(***************************************************************************)
EXTENDS Integers, Sequences, FiniteSets, TLC

(***************************************************************************)
(* Program constants.                                                      *)
(***************************************************************************)
CACHE_DURATION_MS == 60000
SEQUENTIAL_DELAY_MS == 3000
ms_task_delay_data_update == 60000
ms_task_delay_screen_update == 10
ms_error_resset_delay == 10000
ms_reboot_interval == 10800000
ms_task_delay_resset_button == 1000
sec_press_soft_resset_button == 5
ms_toggle_interval == 4000
cnt_screen_lines_per_rows == 2
px_scrool_per_frame == 2
px_margin == 8
cnt_min_lines == 1
cnt_max_lines == 3
cnt_default_lines == 2
retry_delays_ms == <<5000, 10000, 15000, 20000, 40000>>
num_retries == Len(retry_delays_ms)

(***************************************************************************)
(* Bounds of the model.                                                    *)
(***************************************************************************)
Quantum == 1000
MaxTime == 30000
MaxNetDur == 1000
StartTime == 1000
MaxDepartures == 3
OutageFrom == 6000
MaxOutageTime == 170000
MaxGroups == 3
SteadyHorizon == 65000
PartialHorizon == 76000
LiveHorizon == 120000
MaxTextLen == 5

(***************************************************************************)
(* Strings.                                                                *)
(***************************************************************************)
EmptyStr == << >>
EmptyMap == [k \in {} |-> 0]

UpperCase == <<"A","B","C","D","E","F","G","H","I","J","K","L","M",
               "N","O","P","Q","R","S","T","U","V","W","X","Y","Z">>
LowerCase == <<"a","b","c","d","e","f","g","h","i","j","k","l","m",
               "n","o","p","q","r","s","t","u","v","w","x","y","z">>

IndexIn(c, alphabet) ==
  IF \E i \in 1..Len(alphabet) : alphabet[i] = c
    THEN CHOOSE i \in 1..Len(alphabet) : alphabet[i] = c
    ELSE 0

tolower(c) == IF IndexIn(c, UpperCase) > 0 THEN LowerCase[IndexIn(c, UpperCase)] ELSE c
toupper(c) == IF IndexIn(c, LowerCase) > 0 THEN UpperCase[IndexIn(c, LowerCase)] ELSE c

\* isspace of the C locale: space, \t, \n, \r, form feed and vertical tab.
\* TLA+ has no escape for the vertical tab: the last string of the set holds
\* the character 0x0B itself.
isspace(c) == c \in {" ", "\t", "\n", "\r", "\f", ""}

\* Screen::ConvertGermanToLatin: String::replace of the UTF-8 bytes of
\* a-umlaut (C3 A4), A-umlaut (C3 84), o-umlaut (C3 B6), O-umlaut (C3 96),
\* u-umlaut (C3 BC), U-umlaut (C3 9C) and sharp s (C3 9F).  No replacement makes
\* or breaks an occurrence of another, so the seven passes are one.
RECURSIVE ConvertGermanToLatin(_)
ConvertGermanToLatin(input) ==
  IF input = << >> THEN << >>
  ELSE IF Len(input) >= 2 /\ input[1] = "C3"
            /\ input[2] \in {"A4", "84", "B6", "96", "BC", "9C", "9F"}
         THEN LET r == CASE input[2] = "A4" -> <<"a">>
                         [] input[2] = "84" -> <<"A">>
                         [] input[2] = "B6" -> <<"o">>
                         [] input[2] = "96" -> <<"O">>
                         [] input[2] = "BC" -> <<"u">>
                         [] input[2] = "9C" -> <<"U">>
                         [] OTHER -> <<"s", "s">>
              IN r \o ConvertGermanToLatin(SubSeq(input, 3, Len(input)))
         ELSE <<Head(input)>> \o ConvertGermanToLatin(Tail(input))

RECURSIVE TrimLeft(_)
TrimLeft(s) == IF s # << >> /\ isspace(Head(s)) THEN TrimLeft(Tail(s)) ELSE s

RECURSIVE TrimRight(_)
TrimRight(s) ==
  IF s # << >> /\ isspace(s[Len(s)]) THEN TrimRight(SubSeq(s, 1, Len(s) - 1)) ELSE s

trim(s) == TrimRight(TrimLeft(s))

indexOf(s, c) == \E i \in 1..Len(s) : s[i] = c

FixJsonMistake(raw) ==
  LET word == trim(ConvertGermanToLatin(raw))
  IN IF ~indexOf(word, "-") /\ ~indexOf(word, " ") /\ Len(word) > 1
       THEN [i \in 1..Len(word) |->
               IF i = 1 THEN toupper(tolower(word[1])) ELSE tolower(word[i])]
       ELSE word

(***************************************************************************)
(* Monitors and the parser.  A payload is a record                         *)
(*   [kind  : "empty" (nothing received), "junk" (text that is not JSON)   *)
(*            or "json",                                                   *)
(*    infos : Seq([description, relatedLines]),                            *)
(*    lines : Seq([name, towards, isArray, departures : Seq(item)])]       *)
(* with item = [vehicle, departureTime : BOOLEAN, vname, vtowards,         *)
(* countdown]; lines lists the lines of all monitors in document order.    *)
(***************************************************************************)
Monitor(n, t, d, c) == [name |-> n, towards |-> t, description |-> d, countdown |-> c]

EmptyPayload == [kind |-> "empty", infos |-> << >>, lines |-> << >>]
JunkPayload == [kind |-> "junk", infos |-> << >>, lines |-> << >>]
JsonPayload(infos, lines) == [kind |-> "json", infos |-> infos, lines |-> lines]

PayloadIsEmpty(json) == json.kind = "empty"
PayloadParses(json) == json.kind = "json"

RECURSIVE DescriptionMap(_, _)
DescriptionMap(infos, name) ==
  IF infos = << >> THEN EmptyStr
  ELSE LET last == infos[Len(infos)]
       IN IF \E i \in 1..Len(last.relatedLines) : last.relatedLines[i] = name
            THEN ConvertGermanToLatin(last.description)
            ELSE DescriptionMap(SubSeq(infos, 1, Len(infos) - 1), name)

FindMonitor(monitors_vec, n, t) ==
  IF \E i \in 1..Len(monitors_vec) :
       monitors_vec[i].name = n /\ monitors_vec[i].towards = t
    THEN CHOOSE i \in 1..Len(monitors_vec) :
           /\ monitors_vec[i].name = n /\ monitors_vec[i].towards = t
           /\ \A j \in 1..(i - 1) :
                ~(monitors_vec[j].name = n /\ monitors_vec[j].towards = t)
    ELSE 0

ResolveItem(line, item) ==
  IF item.vehicle /\ item.departureTime
    THEN [name |-> item.vname, towards |-> FixJsonMistake(item.vtowards),
          countdown |-> item.countdown]
  ELSE IF item.departureTime
    THEN [name |-> line.name, towards |-> FixJsonMistake(line.towards),
          countdown |-> item.countdown]
  ELSE [name |-> EmptyStr, towards |-> EmptyStr, countdown |-> -1]

\* The merge step without the search for an existing Monitor.
MergeDepartureAlwaysNew(monitors_vec, infos, line, item) ==
  LET r == ResolveItem(line, item)
      cd == IF r.countdown # -1 THEN <<r.countdown>> ELSE << >>
  IN Append(monitors_vec, Monitor(r.name, r.towards, DescriptionMap(infos, r.name), cd))

\* One pass of the departure loop of lines 2089-2144.
MergeDeparture(monitors_vec, infos, line, item) ==
  LET r == ResolveItem(line, item)
      it == FindMonitor(monitors_vec, r.name, r.towards)
      cd == IF r.countdown # -1 THEN <<r.countdown>> ELSE << >>
  IN IF it = 0
       THEN Append(monitors_vec,
                   Monitor(r.name, r.towards, DescriptionMap(infos, r.name), cd))
       ELSE [monitors_vec EXCEPT ![it].countdown = @ \o cd]

RECURSIVE MergeDepartures(_, _, _, _)
MergeDepartures(monitors_vec, infos, line, items) ==
  IF items = << >> THEN monitors_vec
  ELSE MergeDepartures(MergeDeparture(monitors_vec, infos, line, Head(items)),
                       infos, line, Tail(items))

RECURSIVE MergeLines(_, _, _)
MergeLines(monitors_vec, infos, lines) ==
  IF lines = << >> THEN monitors_vec
  ELSE LET line == Head(lines)
           next == IF line.isArray
                     THEN MergeDepartures(monitors_vec, infos, line, line.departures)
                     ELSE monitors_vec
       IN MergeLines(next, infos, Tail(lines))

GetMonitorsFromJson(json) ==
  IF ~PayloadParses(json) THEN << >>
  ELSE MergeLines(<< >>, json.infos, json.lines)

\* GetMonitorsFromJson returning at once when deserializeJson fails.
ParseDelayNone(json) == 0

\* GetMonitorsFromJson blocks for ms_error_resset_delay when deserializeJson fails.
ParseDelay(json) == IF PayloadParses(json) THEN 0 ELSE ms_error_resset_delay

(***************************************************************************)
(* Whitelist filter, per-line assignment and sort.                         *)
(***************************************************************************)
\* The filter text taken as one entry.
GetSplittedStringsWhole(data, separator) == <<data>>

RECURSIVE GetSplittedStrings(_, _)
GetSplittedStrings(data, separator) ==
  IF ~indexOf(data, separator) THEN <<data>>
  ELSE LET separatorIndex == CHOOSE i \in 1..Len(data) :
                               data[i] = separator /\ \A j \in 1..(i - 1) : data[j] # separator
       IN <<SubSeq(data, 1, separatorIndex - 1)>>
            \o GetSplittedStrings(SubSeq(data, separatorIndex + 1, Len(data)), separator)

GetFilteredMonitors(data, filter) ==
  IF filter = EmptyStr THEN data
  ELSE LET custom_names == GetSplittedStrings(filter, ",")
           InNames(m) == \E i \in 1..Len(custom_names) : custom_names[i] = m.name
       IN SelectSeq(data, InNames)

\* Every display line taking the name of line 1.
GetLineNameFirst(config, line_idx) == config.line_names[1]

GetLineName(config, line_idx) ==
  IF line_idx \in 1..3 THEN config.line_names[line_idx] ELSE config.line_names[1]

LineBucket(data, lineName) ==
  IF lineName = EmptyStr THEN data
  ELSE LET IsLine(m) == m.name = lineName IN SelectSeq(data, IsLine)

GetMonitorsPerDisplayLine(data, config) ==
  [i \in 1..config.cnt_lines |-> LineBucket(data, GetLineName(config, i))]

\* The assignment with buckets for the two main lines only.
GetMonitorsPerDisplayLineMainOnly(mainData, line3Data, config) ==
  [i \in 1..2 |-> LineBucket(mainData, GetLineName(config, i))]

GetMonitorsPerDisplayLineWithSeparateLine3(mainData, line3Data, config) ==
  [i \in 1..config.cnt_lines |->
     IF i <= 2 THEN LineBucket(mainData, GetLineName(config, i))
     ELSE LineBucket(line3Data, GetLineName(config, 3))]

\* A comparison that looks at the first countdowns only.
LexLessFirstOnly(a, b) ==
  IF b = << >> THEN FALSE
  ELSE IF a = << >> THEN TRUE
  ELSE Head(a) < Head(b)

\* operator< of std::vector<int>: lexicographic, a proper prefix is smaller.
RECURSIVE LexLess(_, _)
LexLess(a, b) ==
  IF b = << >> THEN FALSE
  ELSE IF a = << >> THEN TRUE
  ELSE IF Head(a) < Head(b) THEN TRUE
  ELSE IF Head(b) < Head(a) THEN FALSE
  ELSE LexLess(Tail(a), Tail(b))

\* std::sort on up to 16 elements is libstdc++'s insertion sort: an element
\* moves left only past elements it is strictly less than.
RECURSIVE InsertSorted(_, _)
InsertSorted(sorted, m) ==
  IF sorted # << >> /\ LexLess(m.countdown, sorted[Len(sorted)].countdown)
    THEN Append(InsertSorted(SubSeq(sorted, 1, Len(sorted) - 1), m), sorted[Len(sorted)])
    ELSE Append(sorted, m)

RECURSIVE SortFrom(_, _)
SortFrom(sorted, rest) ==
  IF rest = << >> THEN sorted ELSE SortFrom(InsertSorted(sorted, Head(rest)), Tail(rest))

IsSortedLine(v) ==
  \A i \in 1..(Len(v) - 1) : ~LexLess(v[i + 1].countdown, v[i].countdown)

\* The orders std::sort can leave a bucket in.  It promises the order of the
\* comparison only.  Up to 16 elements that is the insertion sort above, which
\* keeps groups with equal countdown lists in their order; on a longer bucket
\* such groups can come out in any order.
sortTrafic(v) ==
  IF Len(v) <= 16
    THEN {SortFrom(<< >>, v)}
    ELSE { [i \in DOMAIN v |-> v[p[i]]] :
             p \in { q \in [DOMAIN v -> DOMAIN v] :
                       /\ \A i, j \in DOMAIN v : i # j => q[i] # q[j]
                       /\ IsSortedLine([i \in DOMAIN v |-> v[q[i]]]) } }

(***************************************************************************)
(* State.                                                                  *)
(***************************************************************************)
VARIABLES
  now,                       \* millis()
  cfg,                       \* global_settings.config, fixed after setup()
  cache,                     \* ApiCacheManager::cache : rbl id -> CachedData
  last_api_call_ms,          \* ApiCacheManager::last_api_call_ms
  dataMutex,                 \* owner of dataMutex: "none", "data" or "screen"
  monitors_per_line,         \* TraficManager::monitors_per_line
  last_toggle_time,          \* TraficManager::last_toggle_time
  show_first_departure,      \* TraficManager::show_first_departure
  last_min_size,             \* TraficManager::last_min_size
  SplittedStringCache,       \* TraficManager::SplittedStringCache
  screen,                    \* the Screen object: widths, scroll coordinates and flags
  data_task,                 \* UpdateDataTask: position and locals
  screen_task,               \* ScreenUpdateTask: position and wake-up time
  net,                       \* log of the GetJson calls: starts and count
  env,                       \* the environment: what the server answers, until when
  probe                      \* input and result of the function under test

cacheVars == <<cache, last_api_call_ms>>
managerVars == <<monitors_per_line, last_toggle_time, show_first_departure>>
layoutVars == <<last_min_size, SplittedStringCache, screen>>
vars == <<now, cfg, cache, last_api_call_ms, dataMutex, monitors_per_line,
          last_toggle_time, show_first_departure, last_min_size,
          SplittedStringCache, screen, data_task, screen_task, net, env, probe>>

(***************************************************************************)
(* Display measurement.  The glyph tables of the fonts are data of the     *)
(* graphics library, not of the sketch: the model takes the fonts as       *)
(* fixed-pitch, every character the font has a glyph for advancing the     *)
(* text by the pitch of the font and a character it has no glyph for       *)
(* adding nothing.  The font of the middle text is part of the             *)
(* environment (env.font), so that the layout can also be checked under    *)
(* other metrics.                                                          *)
(* The panel width and the pitches are bounds of the model: a small panel  *)
(* on which the texts of the payloads wrap, truncate and scroll.           *)
(***************************************************************************)
tft_width == 60
px_char_12pt == 2
px_char_24pt == 4
px_height_24pt == 6
INT_MAX == 2147483647

\* The two squares of the blinking countdown, U+25F1 and U+25F3, in UTF-8.
SquareA == <<"E2", "97", "B1">>
SquareB == <<"E2", "97", "B3">>

CalculatefontHeight_px(p_font) == IF p_font = "24pt" THEN px_height_24pt ELSE px_height_24pt \div 2

\* The characters of FreeSansBold12pt7b and FreeSansBold24pt7b: the 7-bit
\* fonts hold the glyphs 0x20..0x7E.  The backquote (0x60) is the one of them
\* that no string of TLA+ can hold, so that no text here contains it.  The
\* bytes of a character outside ASCII are all 0x80 or more and none is a glyph.
FontGlyphs ==
  {
    " ", "!", "\"", "#", "$", "%", "&", "'", "(", ")", "*", "+",
    ",", "-", ".", "/", "0", "1", "2", "3", "4", "5", "6", "7",
    "8", "9", ":", ";", "<", "=", ">", "?", "@", "A", "B", "C",
    "D", "E", "F", "G", "H", "I", "J", "K", "L", "M", "N", "O",
    "P", "Q", "R", "S", "T", "U", "V", "W", "X", "Y", "Z", "[",
    "\\", "]", "^", "_", "a", "b", "c", "d", "e", "f", "g",
    "h", "i", "j", "k", "l", "m", "n", "o", "p", "q", "r", "s",
    "t", "u", "v", "w", "x", "y", "z", "{", "|", "}", "~" }

HasGlyph(c) == c \in FontGlyphs

\* The metrics of a font as textWidth adds them up: the advance of the space,
\* of the hyphen and of every other glyph, and what a glyph that follows a
\* hyphen is set apart by in addition (pair kerning; 0 in the fonts of the
\* sketch).
FixedPitch(px_char) ==
  [space |-> px_char, hyphen |-> px_char, other |-> px_char, kern |-> 0]

\* Metrics under which the width of a text never decreases when a character is
\* appended; the fixed pitch of the 12pt font is one of them.
Measures ==
  { [space |-> s, hyphen |-> h, other |-> px_char_12pt, kern |-> k] :
      s \in {0, px_char_12pt}, h \in {px_char_12pt, 2 * px_char_12pt},
      k \in {0, 2 * px_char_12pt} }

\* textWidth: the sum of the advances of the glyphs of str, a text in UTF-8 or
\* the beginning of one.
textWidth(font, str) ==
  LET g == SelectSeq(str, HasGlyph)
      IsSpace(c) == c = " "
      IsHyphen(c) == c = "-"
      cnt_space == Len(SelectSeq(g, IsSpace))
      cnt_hyphen == Len(SelectSeq(g, IsHyphen))
      cnt_kerned == Cardinality({i \in 2..Len(g) :
                                   g[i - 1] = "-" /\ g[i] \notin {" ", "-"}})
  IN font.space * cnt_space + font.hyphen * cnt_hyphen
       + font.other * (Len(g) - cnt_space - cnt_hyphen) + font.kern * cnt_kerned

\* Screen::CalculateFontWidth_px.  p_font is FreeSansBold24pt7b ("24pt") or
\* FreeSansBold12pt7b ("12pt"), the font of the middle text.
CalculateFontWidth_px(p_font, str) ==
  IF str = SquareA \/ str = SquareB THEN CalculatefontHeight_px(p_font)
  ELSE textWidth(IF p_font = "24pt" THEN FixedPitch(px_char_24pt) ELSE env.font, str)

IsEnoughSpaceForMiddleText(min_sprite, str) ==
  min_sprite >= CalculateFontWidth_px("12pt", str)

RECURSIVE DecDigits(_)
DecDigits(n) ==
  LET d == <<"0","1","2","3","4","5","6","7","8","9">>[(n % 10) + 1]
  IN IF n < 10 THEN <<d>> ELSE Append(DecDigits(n \div 10), d)

DecText(n) == IF n < 0 THEN <<"-">> \o DecDigits(0 - n) ELSE DecDigits(n)

(***************************************************************************)
(* Text layout.                                                            *)
(***************************************************************************)
\* The loop of splitStringToWords from character i on.
RECURSIVE WordsFrom(_, _, _, _, _)
WordsFrom(str, i, words, currentWord, min_sprite) ==
  IF i > Len(str)
    THEN IF currentWord # << >> /\ IsEnoughSpaceForMiddleText(min_sprite, currentWord)
           THEN Append(words, currentWord)
           ELSE words
    ELSE LET cur == Append(currentWord, str[i])
         IN IF str[i] = " " \/ str[i] = "-"
              THEN WordsFrom(str, i + 1,
                             IF IsEnoughSpaceForMiddleText(min_sprite, cur)
                               THEN Append(words, cur) ELSE words,
                             << >>, min_sprite)
              ELSE WordsFrom(str, i + 1, words, cur, min_sprite)

\* The words of a text, kept whether they fit or not.
RECURSIVE WordsFromAll(_, _, _, _)
WordsFromAll(str, i, words, currentWord) ==
  IF i > Len(str)
    THEN IF currentWord # << >> THEN Append(words, currentWord) ELSE words
    ELSE LET cur == Append(currentWord, str[i])
         IN IF str[i] = " " \/ str[i] = "-"
              THEN WordsFromAll(str, i + 1, Append(words, cur), << >>)
              ELSE WordsFromAll(str, i + 1, words, cur)

splitStringToWordsAll(str, min_sprite) == WordsFromAll(str, 1, << >>, << >>)

splitStringToWords(str, min_sprite) == WordsFrom(str, 1, << >>, << >>, min_sprite)

\* The packing loop of splitToString from word i on.
RECURSIVE PackFrom(_, _, _, _, _)
PackFrom(words, i, subtexts, currentSubtext, min_sprite) ==
  IF i > Len(words)
    THEN IF currentSubtext # << >> THEN Append(subtexts, currentSubtext) ELSE subtexts
    ELSE IF IsEnoughSpaceForMiddleText(min_sprite, currentSubtext \o <<" ">> \o words[i])
           THEN PackFrom(words, i + 1, subtexts, currentSubtext \o words[i], min_sprite)
           ELSE PackFrom(words, i + 1,
                         IF currentSubtext # << >>
                           THEN Append(subtexts, currentSubtext) ELSE subtexts,
                         words[i], min_sprite)

DropLastChar(subtexts) ==
  [i \in 1..Len(subtexts) |->
     IF subtexts[i] # << >> /\ i # Len(subtexts)
       THEN SubSeq(subtexts[i], 1, Len(subtexts[i]) - 1)
       ELSE subtexts[i]]

splitToString(input, min_sprite) ==
  DropLastChar(PackFrom(splitStringToWords(input, min_sprite), 1, << >>, << >>, min_sprite))

\* The loop takes bytes of the text while the prefix before each fits, and the
\* last two bytes taken are removed: the cut can fall inside a character of
\* more than one byte.
getMaximumPosibleSingleNoScrollWord(str, min_sprite) ==
  LET Fits(i) == IsEnoughSpaceForMiddleText(min_sprite, SubSeq(str, 1, i))
      \* the loop appends str[i] while the prefix of length i (0-based i) fits
      taken == IF \A i \in 0..(Len(str) - 1) : Fits(i) THEN Len(str)
               ELSE CHOOSE k \in 0..(Len(str) - 1) :
                      ~Fits(k) /\ \A j \in 0..(k - 1) : Fits(j)
  IN IF taken >= 2 THEN SubSeq(str, 1, taken - 2) ELSE << >>

(***************************************************************************)
(* Screen: scroll state machine of one sub-line, one row, all rows.        *)
(***************************************************************************)
NewScreen(cnt_rows) ==
  [px_max_width_name_text |-> 0,
   px_max_width_countdown_text |-> 0,
   px_min_text_sprite |-> INT_MAX,
   cnt_rows |-> cnt_rows,
   vec_scrolls_coords |-> [r \in 1..cnt_rows |-> [l \in 1..cnt_screen_lines_per_rows |-> 0]],
   vec_init_scrolls_coords |->
     [r \in 1..cnt_rows |-> [l \in 1..cnt_screen_lines_per_rows |-> FALSE]]]

FullResetScroll(scr) ==
  [scr EXCEPT
     !.vec_scrolls_coords =
        [r \in DOMAIN @ |-> [l \in DOMAIN @[r] |-> 0]],
     !.vec_init_scrolls_coords =
        [r \in DOMAIN @ |-> [l \in DOMAIN @[r] |-> FALSE]]]

\* Screen::SelectiveResetScroll.  The loops run over all rows of the screen;
\* isNeedReset[i] for a row beyond the vector's size is a read past its end, here
\* the value past[i].  An empty vector has no storage: the read of its first
\* element on a screen with rows goes through the null pointer and ends the
\* program, the outcome "crashed".
SelectiveResetScroll(scr, isNeedReset, past) ==
  LET need(r) == IF r <= Len(isNeedReset) THEN isNeedReset[r] ELSE past[r]
  IN IF /\ Len(isNeedReset) = 0
        /\ Len(scr.vec_scrolls_coords) + Len(scr.vec_init_scrolls_coords) > 0
       THEN "crashed"
       ELSE [scr EXCEPT
               !.vec_scrolls_coords =
                  [r \in DOMAIN @ |-> IF need(r) THEN [l \in DOMAIN @[r] |-> 0] ELSE @[r]],
               !.vec_init_scrolls_coords =
                  [r \in DOMAIN @ |-> IF need(r) THEN [l \in DOMAIN @[r] |-> FALSE] ELSE @[r]]]

\* TraficManager::SelectiveReset.
SelectiveReset(scr, currentTraficSubset, futureSubset, past) ==
  LET size == Len(futureSubset)
      isNeedReset ==
        [i \in 1..size |->
           IF \/ currentTraficSubset[i].description = EmptyStr
              \/ futureSubset[i].description = EmptyStr
             THEN TRUE
             ELSE currentTraficSubset[i].description # futureSubset[i].description]
  IN IF Len(currentTraficSubset) = size /\ Len(currentTraficSubset) > 1
       THEN SelectiveResetScroll(scr, isNeedReset, past)
       ELSE scr

\* One pass of the loop body of DrawMiddleText for sub-line i (0-based) of a row.
\* ScrollLine without the return to the right edge.
ScrollLineNoWrap(coord, is_init, text, i, px_width) ==
  LET px_full_string == CalculateFontWidth_px("12pt", text)
      sprite_width == IF px_width < 1 THEN 0 ELSE px_width
  IN IF px_full_string > px_width
       THEN IF ~is_init /\ i > 0 /\ Len(text) > 0
              THEN [coord |-> sprite_width, is_init |-> TRUE]
              ELSE [coord |-> coord - px_scrool_per_frame, is_init |-> is_init]
       ELSE IF px_full_string < coord
              THEN [coord |-> 0, is_init |-> FALSE]
              ELSE [coord |-> coord, is_init |-> is_init]

\* sprite.width() is the width createSprite was given, and 0 when createSprite
\* made no sprite because the width was below 1.
ScrollLine(coord, is_init, text, i, px_width) ==
  LET px_full_string == CalculateFontWidth_px("12pt", text)
      sprite_width == IF px_width < 1 THEN 0 ELSE px_width
      c1 == IF coord < (0 - px_full_string) THEN sprite_width ELSE coord
  IN IF px_full_string > px_width
       THEN IF ~is_init /\ i > 0 /\ Len(text) > 0
              THEN [coord |-> sprite_width, is_init |-> TRUE]
              ELSE [coord |-> c1 - px_scrool_per_frame, is_init |-> is_init]
       ELSE IF px_full_string < c1
              THEN [coord |-> 0, is_init |-> FALSE]
              ELSE [coord |-> c1, is_init |-> is_init]

SetMinTextSprite_px(scr, px_min) ==
  [scr EXCEPT !.px_min_text_sprite = IF px_min < @ THEN px_min ELSE @]

DrawMiddleText(scr, vec_text_lines, idx_row) ==
  LET px_width == tft_width - scr.px_max_width_countdown_text
                    - scr.px_max_width_name_text - px_margin * 4
      s1 == SetMinTextSprite_px(scr, px_width)
      n == IF Len(vec_text_lines) < cnt_screen_lines_per_rows
             THEN Len(vec_text_lines) ELSE cnt_screen_lines_per_rows
      L(l) == ScrollLine(scr.vec_scrolls_coords[idx_row][l],
                         scr.vec_init_scrolls_coords[idx_row][l],
                         vec_text_lines[l], l - 1, px_width)
  IN [s1 EXCEPT
        !.vec_scrolls_coords[idx_row] =
           [l \in DOMAIN @ |-> IF l <= n THEN L(l).coord ELSE @[l]],
        !.vec_init_scrolls_coords[idx_row] =
           [l \in DOMAIN @ |-> IF l <= n THEN L(l).is_init ELSE @[l]]]

SetRow(scr, entity, idx_row) ==
  IF idx_row > scr.cnt_rows THEN scr
  ELSE LET nameW == CalculateFontWidth_px("24pt", entity.right_txt)
           cdW == CalculateFontWidth_px("24pt", entity.left_txt)
           s1 == [scr EXCEPT
                    !.px_max_width_name_text = IF nameW > @ THEN nameW ELSE @,
                    !.px_max_width_countdown_text = IF cdW > @ THEN cdW ELSE @]
       IN DrawMiddleText(s1, entity.lines, idx_row)

RECURSIVE SetRowsFrom(_, _, _)
SetRowsFrom(scr, vec_screen_entity, i) ==
  IF i > Len(vec_screen_entity) THEN scr
  ELSE SetRowsFrom(SetRow(scr, vec_screen_entity[i], i), vec_screen_entity, i + 1)

SetRows(scr, vec_screen_entity) == SetRowsFrom(scr, vec_screen_entity, 1)

(***************************************************************************)
(* TraficManager: presentation of one display line and of the screen.      *)
(***************************************************************************)
\* SplittedStringCache as it stands once getSplittedStringFromCache has compared
\* last_min_size with the screen's current minimum.
\* The wrap cache kept whatever the width.
CacheCheckedKept(splitCache, lastMin, min_size) == splitCache

CacheChecked(splitCache, lastMin, min_size) ==
  IF lastMin # min_size THEN EmptyMap ELSE splitCache

getSplittedStringFromCache(splitCache, key_string, min_size) ==
  IF key_string \in DOMAIN splitCache THEN splitCache[key_string]
  ELSE splitToString(key_string, min_size)

\* The first countdown whatever the toggle says.
CountdownIdxFirst(m, show_first) == 0

CountdownIdx(m, show_first) ==
  IF ~show_first /\ Len(m.countdown) > 1 THEN 1 ELSE 0

LeftText(m, show_first, t) ==
  LET countdown_idx == CountdownIdx(m, show_first)
  IN IF countdown_idx < Len(m.countdown)
       THEN IF m.countdown[countdown_idx + 1] = 0
              THEN IF (t \div 1000) % 2 # 0 THEN SquareA ELSE SquareB
              ELSE DecText(m.countdown[countdown_idx + 1])
       ELSE EmptyStr

\* cnt_char_splitted_text and the length of the destination are lengths in
\* bytes (String::length).
MiddleLines(m, splitCache, min_size) ==
  LET splitted_string == getSplittedStringFromCache(splitCache, m.towards, min_size)
      cnt_sub_rows == IF Len(splitted_string) < cnt_screen_lines_per_rows
                        THEN Len(splitted_string) ELSE cnt_screen_lines_per_rows
      cnt_char_splitted_text ==
        (IF cnt_sub_rows >= 1 THEN Len(splitted_string[1]) ELSE 0)
          + (IF cnt_sub_rows >= 2 THEN Len(splitted_string[2]) ELSE 0)
      wrapped == [j \in 1..(2 * cnt_screen_lines_per_rows) |->
                    IF j <= cnt_sub_rows THEN splitted_string[j] ELSE EmptyStr]
      fitted == IF m.towards # EmptyStr /\ 2 * cnt_char_splitted_text < Len(m.towards)
                  THEN [wrapped EXCEPT
                          ![1] = getMaximumPosibleSingleNoScrollWord(m.towards, min_size),
                          ![2] = EmptyStr]
                  ELSE wrapped
  IN IF Len(m.description) > 0 THEN [fitted EXCEPT ![2] = m.description] ELSE fitted

\* The row of a line without departures left blank whatever its name.
ScreenEntityOfBlank(display_line, mpl, config, show_first, t, splitCache, min_size) ==
  IF display_line <= Len(mpl) /\ mpl[display_line] # << >>
    THEN LET currentMonitor == mpl[display_line][1]
         IN [right_txt |-> currentMonitor.name,
             left_txt |-> LeftText(currentMonitor, show_first, t),
             lines |-> MiddleLines(currentMonitor, splitCache, min_size)]
    ELSE [right_txt |-> EmptyStr, left_txt |-> EmptyStr,
          lines |-> [j \in 1..(2 * cnt_screen_lines_per_rows) |-> EmptyStr]]

ScreenEntityOf(display_line, mpl, config, show_first, t, splitCache, min_size) ==
  IF display_line <= Len(mpl) /\ mpl[display_line] # << >>
    THEN LET currentMonitor == mpl[display_line][1]
         IN [right_txt |-> currentMonitor.name,
             left_txt |-> LeftText(currentMonitor, show_first, t),
             lines |-> MiddleLines(currentMonitor, splitCache, min_size)]
    ELSE LET configuredLine == GetLineName(config, display_line)
         IN [right_txt |-> configuredLine,
             left_txt |-> IF configuredLine # EmptyStr THEN <<"-">> ELSE EmptyStr,
             lines |-> [j \in 1..(2 * cnt_screen_lines_per_rows) |-> EmptyStr]]

\* The keys getSplittedStringFromCache is asked for in one DrawTraficOnScreen.
DrawnKeys(mpl, config) ==
  {mpl[i][1].towards : i \in {j \in 1..config.cnt_lines : j <= Len(mpl) /\ mpl[j] # << >>}}

\* DrawTraficOnScreen: the new [screen, SplittedStringCache, last_min_size].
DrawTraficOnScreen(scr, mpl, config, show_first, t, splitCache, lastMin) ==
  LET min_size == scr.px_min_text_sprite
      keys == DrawnKeys(mpl, config)
      c0 == IF keys = {} THEN splitCache ELSE CacheChecked(splitCache, lastMin, min_size)
      c1 == [k \in (DOMAIN c0) \cup keys |->
               IF k \in DOMAIN c0 THEN c0[k] ELSE splitToString(k, min_size)]
      vec_screen_entity ==
        [i \in 1..config.cnt_lines |->
           ScreenEntityOf(i, mpl, config, show_first, t, c0, min_size)]
  IN [screen |-> SetRows(scr, vec_screen_entity),
      SplittedStringCache |-> c1,
      last_min_size |-> IF keys = {} THEN lastMin ELSE min_size,
      vec_screen_entity |-> vec_screen_entity]

(***************************************************************************)
(* ApiCacheManager::FetchRBL.                                              *)
(***************************************************************************)
CachedData(json, t, valid) == [json_response |-> json, timestamp_ms |-> t, is_valid |-> valid]

\* The cache test with the age CACHE_DURATION_MS itself still served from the cache.
CacheHitInclusive(c, rbl_id, force_refresh, current_ms) ==
  /\ ~force_refresh
  /\ rbl_id \in DOMAIN c
  /\ c[rbl_id].is_valid
  /\ current_ms - c[rbl_id].timestamp_ms <= CACHE_DURATION_MS

\* The test of lines 815-819: a cached, valid entry younger than CACHE_DURATION_MS.
CacheHit(c, rbl_id, force_refresh, current_ms) ==
  /\ ~force_refresh
  /\ rbl_id \in DOMAIN c
  /\ c[rbl_id].is_valid
  /\ current_ms - c[rbl_id].timestamp_ms < CACHE_DURATION_MS

\* FetchRBL without the spacing delay.
DelayNeededNone(last_call, current_ms) == 0

\* delay_needed of lines 830-832, 0 when no delay is made.
DelayNeeded(last_call, current_ms) ==
  IF last_call > 0 /\ current_ms - last_call < SEQUENTIAL_DELAY_MS
    THEN SEQUENTIAL_DELAY_MS - (current_ms - last_call)
    ELSE 0

\* The cache entry marked valid whatever GetJson returned.
CacheStoreValid(c, rbl_id, json, t) ==
  [k \in (DOMAIN c) \cup {rbl_id} |->
     IF k = rbl_id THEN CachedData(json, t, TRUE) ELSE c[k]]

\* The cache update of lines 846-849.
CacheStore(c, rbl_id, json, t) ==
  [k \in (DOMAIN c) \cup {rbl_id} |->
     IF k = rbl_id THEN CachedData(json, t, ~PayloadIsEmpty(json)) ELSE c[k]]

\* The entry of rbl_id, when there is one, stops being valid.
InvalidateCache(c, rbl_id) ==
  [k \in DOMAIN c |-> IF k = rbl_id THEN [c[k] EXCEPT !.is_valid = FALSE] ELSE c[k]]

\* Every entry is removed.
ClearCache(c) == EmptyMap

(***************************************************************************)
(* Configurations and payloads the model draws from.                       *)
(***************************************************************************)
Str_D == <<"D">>
Str_2 == <<"2">>
Str_U6 == <<"U", "6">>

Config(n, filter, rbl, names, rbl3, filter3) ==
  [cnt_lines |-> n, lines_filter |-> filter, lines_rbl |-> rbl,
   line_names |-> names, line_3_rbl |-> rbl3, line_3_filter |-> filter3]

Configs ==
  { Config(2, EmptyStr, "4202", <<EmptyStr, EmptyStr, EmptyStr>>, "", EmptyStr),
    Config(3, <<"D", ",", "2">>, "4202", <<Str_D, EmptyStr, EmptyStr>>, "147", <<"U", "6">>) }

Item(v, dt, vname, vtowards, cd) ==
  [vehicle |-> v, departureTime |-> dt, vname |-> vname, vtowards |-> vtowards,
   countdown |-> cd]
Line(name, towards, items) ==
  [name |-> name, towards |-> towards, isArray |-> TRUE, departures |-> items]
Info(description, relatedLines) ==
  [description |-> description, relatedLines |-> relatedLines]

Txt_Nussdorf == <<"N","U","S","S","D","O","R","F">>
Txt_Oper == <<"O","p","e","r"," ","-"," ","R","i","n","g">>
\* "Verspaetung" with a-umlaut.
Txt_Alert == <<"V","e","r","s","p","C3","A4","t","u","n","g">>

PayloadA ==
  JsonPayload(<< >>,
    << Line(Str_D, Txt_Nussdorf,
            << Item(TRUE, TRUE, Str_D, Txt_Nussdorf, 7),
               Item(TRUE, TRUE, Str_D, Txt_Nussdorf, 0) >>),
       Line(Str_U6, Txt_Oper, << Item(FALSE, TRUE, EmptyStr, EmptyStr, 3) >>) >>)

PayloadB ==
  JsonPayload(<< Info(Txt_Alert, <<Str_2>>) >>,
    << Line(Str_2, Txt_Oper,
            << Item(FALSE, TRUE, EmptyStr, EmptyStr, 12),
               Item(FALSE, TRUE, EmptyStr, EmptyStr, -1),
               Item(FALSE, TRUE, EmptyStr, EmptyStr, 4) >>),
       Line(Str_U6, Txt_Nussdorf, << Item(TRUE, TRUE, Str_U6, Txt_Nussdorf, 15) >>) >>)

\* What GetJson can return: nothing, text that is not JSON, or a response.
Payloads == {EmptyPayload, JunkPayload, PayloadA, PayloadB}

(***************************************************************************)
(* Initial state: setup() has run, both tasks are created, nothing fetched.*)
(***************************************************************************)
p_trafic_clock == FALSE      \* TraficManager::p_trafic_clock is null and never assigned

NoProbe == [fn |-> "none"]

\* The server answers with any of `answers` until outage_from and with nothing
\* from then on; the clock stops at horizon.
\* What surrounds the program: the responses the server gives, from when on it
\* gives none, and how far the clock runs, all three counted from the boot; the
\* configurations the portal can save; the metrics of the font of the middle
\* text.
Env(answers, outage_from, horizon) ==
  [answers |-> answers, outage_from |-> outage_from, horizon |-> horizon,
   configs |-> {}, font |-> FixedPitch(px_char_12pt)]

Answers(e, t) == IF t >= e.outage_from THEN {EmptyPayload} ELSE e.answers

InitProgramFor(e, configs) ==
  /\ env = [e EXCEPT !.configs = configs]
  /\ now = StartTime
  /\ cfg \in configs
  /\ cache = EmptyMap
  /\ last_api_call_ms = 0
  /\ dataMutex = "none"
  /\ monitors_per_line = << >>
  /\ last_toggle_time = 0
  /\ show_first_departure = TRUE
  /\ last_min_size = -1
  /\ SplittedStringCache = EmptyMap
  /\ screen = NewScreen(cfg.cnt_lines)
  \* fail_streak (failed attempts since the last success) and published
  \* (monitors_per_line as the last completed update left it) are history
  \* variables; net records when the last two GetJson calls started.
  /\ data_task = [pc |-> "attempt", wake |-> 0, retry_attempt |-> 0,
                  update_successful |-> FALSE, sm_start |-> 0, which |-> "main",
                  rbl_id |-> "", current_ms |-> 0, hit |-> FALSE,
                  rbl_json |-> EmptyPayload, tempTrafficSet |-> << >>,
                  line3TrafficSet |-> << >>, execution_ms |-> 0,
                  delay_real_ms |-> 0, planned_ms |-> 0, sort_idx |-> 0,
                  fail_streak |-> 0, published |-> << >>]
  /\ screen_task = [pc |-> "take", wake |-> 0]
  /\ net = [count |-> 0, start |-> 0, prev_start |-> 0]

InitProgram(e) == InitProgramFor(e, Configs)

InitWith(e) == InitProgram(e) /\ probe = NoProbe

Init == InitWith(Env(Payloads, MaxTime + Quantum, MaxTime))

(***************************************************************************)
(* UpdateDataTask.                                                         *)
(***************************************************************************)
\* Top of the retry loop body: the SmartWatch starts, FetchRBL(main_rbl) is called.
DataBeginAttempt ==
  /\ data_task.pc = "attempt"
  /\ data_task' = [data_task EXCEPT !.pc = "fetch", !.sm_start = now, !.which = "main",
                                    !.rbl_id = cfg.lines_rbl,
                                    !.tempTrafficSet = << >>, !.line3TrafficSet = << >>]
  /\ UNCHANGED <<now, cfg, cacheVars, dataMutex, managerVars, layoutVars,
                 screen_task, net, env, probe>>

\* FetchRBL counting a cache hit as a call: the hit sets last_api_call_ms.
FetchRBLEnterTouching ==
  /\ data_task.pc = "fetch"
  /\ LET id == data_task.rbl_id
         d == DelayNeeded(last_api_call_ms, now)
         isHit == id # "" /\ CacheHit(cache, id, FALSE, now)
     IN /\ data_task' =
             IF id = "" THEN
               [data_task EXCEPT !.pc = "parse", !.rbl_json = EmptyPayload, !.hit = FALSE]
             ELSE IF isHit THEN
               [data_task EXCEPT !.pc = "parse", !.current_ms = now, !.hit = TRUE,
                                 !.rbl_json = cache[id].json_response]
             ELSE IF d > 0 THEN
               [data_task EXCEPT !.pc = "spacing", !.current_ms = now, !.hit = FALSE,
                                 !.wake = now + d]
             ELSE
               [data_task EXCEPT !.pc = "getjson", !.current_ms = now, !.hit = FALSE]
        /\ last_api_call_ms' = IF isHit THEN now ELSE last_api_call_ms
  /\ UNCHANGED <<now, cfg, cache, dataMutex, managerVars, layoutVars,
                 screen_task, net, env, probe>>

\* FetchRBL up to its first blocking call: return of "" for an empty id, return of
\* the cached response, or the decision to delay and fetch.
FetchRBLEnter ==
  /\ data_task.pc = "fetch"
  /\ LET id == data_task.rbl_id
         d == DelayNeeded(last_api_call_ms, now)
     IN data_task' =
          IF id = "" THEN
            [data_task EXCEPT !.pc = "parse", !.rbl_json = EmptyPayload, !.hit = FALSE]
          ELSE IF CacheHit(cache, id, FALSE, now) THEN
            [data_task EXCEPT !.pc = "parse", !.current_ms = now, !.hit = TRUE,
                              !.rbl_json = cache[id].json_response]
          ELSE IF d > 0 THEN
            [data_task EXCEPT !.pc = "spacing", !.current_ms = now, !.hit = FALSE,
                              !.wake = now + d]
          ELSE
            [data_task EXCEPT !.pc = "getjson", !.current_ms = now, !.hit = FALSE]
  /\ UNCHANGED <<now, cfg, cacheVars, dataMutex, managerVars, layoutVars,
                 screen_task, net, env, probe>>

\* delay(delay_needed) returns.
FetchRBLDelayDone ==
  /\ data_task.pc = "spacing"
  /\ now >= data_task.wake
  /\ data_task' = [data_task EXCEPT !.pc = "getjson"]
  /\ UNCHANGED <<now, cfg, cacheVars, dataMutex, managerVars, layoutVars,
                 screen_task, net, env, probe>>

\* GetJson is called: the HTTP request starts.
GetJsonCall ==
  /\ data_task.pc = "getjson"
  /\ data_task' = [data_task EXCEPT !.pc = "in_net"]
  /\ net' = [count |-> net.count + 1, start |-> now, prev_start |-> net.start]
  /\ UNCHANGED <<now, cfg, cacheVars, dataMutex, managerVars, layoutVars,
                 screen_task, env, probe>>

\* GetJson returns json_data; FetchRBL records the call and the cache entry.
GetJsonReturn ==
  /\ data_task.pc = "in_net"
  /\ \E json_data \in Answers(env, now) :
       /\ last_api_call_ms' = now
       /\ cache' = CacheStore(cache, data_task.rbl_id, json_data, now)
       /\ data_task' = [data_task EXCEPT !.pc = "parse", !.rbl_json = json_data]
  /\ UNCHANGED <<now, cfg, dataMutex, managerVars, layoutVars, screen_task, net, env, probe>>

\* The line-3 filter of lines 2420-2423.
Line3Filter(config) ==
  IF config.line_3_filter = EmptyStr THEN config.lines_filter ELSE config.line_3_filter

NeedsLine3(config) == config.cnt_lines = 3 /\ config.line_3_rbl # ""

\* GetMonitorsFromJson and GetFilteredMonitors on the response just fetched; a
\* response that does not parse holds the task for ms_error_resset_delay.
ParseAndFilter ==
  /\ data_task.pc = "parse"
  /\ LET monitors == GetMonitorsFromJson(data_task.rbl_json)
     IN data_task' =
          IF data_task.which = "main"
            THEN [data_task EXCEPT
                    !.pc = "parsed",
                    !.wake = now + ParseDelay(data_task.rbl_json),
                    !.tempTrafficSet = GetFilteredMonitors(monitors, cfg.lines_filter)]
            ELSE [data_task EXCEPT
                    !.pc = "parsed",
                    !.wake = now + ParseDelay(data_task.rbl_json),
                    !.line3TrafficSet = GetFilteredMonitors(monitors, Line3Filter(cfg))]
  /\ UNCHANGED <<now, cfg, cacheVars, dataMutex, managerVars, layoutVars,
                 screen_task, net, env, probe>>

\* After the main response: fetch line 3 separately, reuse the main data, or go on
\* to the mutex.  After the line-3 response: go on to the mutex.
AfterParse ==
  /\ data_task.pc = "parsed"
  /\ now >= data_task.wake
  /\ data_task' =
       IF data_task.which = "main" /\ NeedsLine3(cfg)
         THEN IF cfg.line_3_rbl = cfg.lines_rbl
                THEN [data_task EXCEPT
                        !.pc = "take",
                        !.line3TrafficSet =
                           GetFilteredMonitors(data_task.tempTrafficSet, Line3Filter(cfg))]
                ELSE [data_task EXCEPT !.pc = "fetch", !.which = "line3",
                                       !.rbl_id = cfg.line_3_rbl]
         ELSE [data_task EXCEPT !.pc = "take"]
  /\ UNCHANGED <<now, cfg, cacheVars, dataMutex, managerVars, layoutVars,
                 screen_task, net, env, probe>>

\* UpdateDataTask entering its critical section without waiting for the mutex.
DataTakeUnguarded ==
  /\ data_task.pc = "take"
  /\ dataMutex' = "data"
  /\ data_task' = [data_task EXCEPT !.pc = "locked"]
  /\ UNCHANGED <<now, cfg, cacheVars, managerVars, layoutVars, screen_task, net, env, probe>>

\* xSemaphoreTake(dataMutex, portMAX_DELAY) in UpdateDataTask.
DataTake ==
  /\ data_task.pc = "take"
  /\ dataMutex = "none"
  /\ dataMutex' = "data"
  /\ data_task' = [data_task EXCEPT !.pc = "locked"]
  /\ UNCHANGED <<now, cfg, cacheVars, managerVars, layoutVars, screen_task, net, env, probe>>

\* The critical section calling update() whatever the attempt yielded.
DataInstallAlways ==
  /\ data_task.pc = "locked"
  /\ monitors_per_line' =
       IF cfg.cnt_lines = 3 /\ data_task.line3TrafficSet # << >>
         THEN GetMonitorsPerDisplayLineWithSeparateLine3(
                data_task.tempTrafficSet, data_task.line3TrafficSet, cfg)
         ELSE GetMonitorsPerDisplayLine(data_task.tempTrafficSet, cfg)
  /\ data_task' = [data_task EXCEPT !.pc = "sort", !.sort_idx = 1]
  /\ UNCHANGED <<now, cfg, cacheVars, dataMutex, last_toggle_time, show_first_departure,
                 layoutVars, screen_task, net, env, probe>>

\* The critical section restarting the toggle timer also when the attempt failed.
DataInstallRestartsToggle ==
  /\ data_task.pc = "locked"
  /\ IF data_task.tempTrafficSet # << >> \/ data_task.line3TrafficSet # << >>
       THEN /\ monitors_per_line' =
                 IF cfg.cnt_lines = 3 /\ data_task.line3TrafficSet # << >>
                   THEN GetMonitorsPerDisplayLineWithSeparateLine3(
                          data_task.tempTrafficSet, data_task.line3TrafficSet, cfg)
                   ELSE GetMonitorsPerDisplayLine(data_task.tempTrafficSet, cfg)
            /\ data_task' = [data_task EXCEPT !.pc = "sort", !.sort_idx = 1]
            /\ UNCHANGED <<last_toggle_time, show_first_departure>>
       ELSE /\ monitors_per_line' = monitors_per_line
            /\ data_task' = [data_task EXCEPT !.pc = "give"]
            /\ last_toggle_time' = now
            /\ show_first_departure' = TRUE
  /\ UNCHANGED <<now, cfg, cacheVars, dataMutex, layoutVars, screen_task, net, env, probe>>

\* Line 2431 and the first statement of TraficManager::update: with data, the
\* per-line vectors are assigned (not yet sorted); without, nothing is touched.
DataInstall ==
  /\ data_task.pc = "locked"
  /\ IF data_task.tempTrafficSet # << >> \/ data_task.line3TrafficSet # << >>
       THEN /\ monitors_per_line' =
                 IF cfg.cnt_lines = 3 /\ data_task.line3TrafficSet # << >>
                   THEN GetMonitorsPerDisplayLineWithSeparateLine3(
                          data_task.tempTrafficSet, data_task.line3TrafficSet, cfg)
                   ELSE GetMonitorsPerDisplayLine(data_task.tempTrafficSet, cfg)
            /\ data_task' = [data_task EXCEPT !.pc = "sort", !.sort_idx = 1]
       ELSE /\ monitors_per_line' = monitors_per_line
            /\ data_task' = [data_task EXCEPT !.pc = "give"]
  /\ UNCHANGED <<now, cfg, cacheVars, dataMutex, last_toggle_time, show_first_departure,
                 layoutVars, screen_task, net, env, probe>>

\* One pass of the loop of lines 1632-1634: sortTrafic on the next line.
UpdateSortLine ==
  /\ data_task.pc = "sort"
  /\ data_task.sort_idx <= Len(monitors_per_line)
  /\ \E sorted \in sortTrafic(monitors_per_line[data_task.sort_idx]) :
       monitors_per_line' = [monitors_per_line EXCEPT ![data_task.sort_idx] = sorted]
  /\ data_task' = [data_task EXCEPT !.sort_idx = @ + 1]
  /\ UNCHANGED <<now, cfg, cacheVars, dataMutex, last_toggle_time, show_first_departure,
                 layoutVars, screen_task, net, env, probe>>

\* The rest of update (lines 1636-1646) and update_successful = true.
UpdateFinish ==
  /\ data_task.pc = "sort"
  /\ data_task.sort_idx > Len(monitors_per_line)
  /\ screen' = IF p_trafic_clock THEN FullResetScroll(screen) ELSE screen
  /\ last_toggle_time' = now
  /\ show_first_departure' = TRUE
  /\ data_task' = [data_task EXCEPT !.pc = "give", !.update_successful = TRUE,
                                    !.published = monitors_per_line]
  /\ UNCHANGED <<now, cfg, cacheVars, dataMutex, monitors_per_line, last_min_size,
                 SplittedStringCache, screen_task, net, env, probe>>

\* The planned delay without the retry table.
PlannedDelayFlat(update_successful, retry_attempt) == ms_task_delay_data_update

\* retry_delay / delay_planned_ms chosen at lines 2451-2467.
PlannedDelay(update_successful, retry_attempt) ==
  IF ~update_successful /\ retry_attempt < num_retries
    THEN retry_delays_ms[retry_attempt + 1]
    ELSE ms_task_delay_data_update

Max0(x) == IF x > 0 THEN x ELSE 0

\* The end of the attempt with the mutex still held during the sleep.
DataGiveKeepsMutex ==
  /\ data_task.pc = "give"
  /\ LET execution_ms == now - data_task.sm_start
         planned == PlannedDelay(data_task.update_successful, data_task.retry_attempt)
     IN data_task' = [data_task EXCEPT
                        !.pc = "sleep",
                        !.execution_ms = execution_ms,
                        !.planned_ms = planned,
                        !.delay_real_ms = Max0(planned - execution_ms),
                        !.wake = now + Max0(planned - execution_ms),
                        !.fail_streak = IF data_task.update_successful THEN 0 ELSE @ + 1]
  /\ UNCHANGED <<now, cfg, cacheVars, dataMutex, managerVars, layoutVars, screen_task,
                 net, env, probe>>

\* xSemaphoreGive, the computation of delay_real_ms, and the call of vTaskDelay.
DataGive ==
  /\ data_task.pc = "give"
  /\ dataMutex' = "none"
  /\ LET execution_ms == now - data_task.sm_start
         planned == PlannedDelay(data_task.update_successful, data_task.retry_attempt)
     IN data_task' = [data_task EXCEPT
                        !.pc = "sleep",
                        !.execution_ms = execution_ms,
                        !.planned_ms = planned,
                        !.delay_real_ms = Max0(planned - execution_ms),
                        !.wake = now + Max0(planned - execution_ms),
                        !.fail_streak = IF data_task.update_successful THEN 0 ELSE @ + 1]
  /\ UNCHANGED <<now, cfg, cacheVars, managerVars, layoutVars, screen_task, net, env, probe>>

\* vTaskDelay returns; retry_attempt++ and the two loop conditions.
DataWake ==
  /\ data_task.pc = "sleep"
  /\ now >= data_task.wake
  /\ data_task' =
       IF ~data_task.update_successful /\ data_task.retry_attempt + 1 <= num_retries
         THEN [data_task EXCEPT !.pc = "attempt", !.retry_attempt = @ + 1]
         ELSE [data_task EXCEPT !.pc = "attempt", !.retry_attempt = 0,
                                !.update_successful = FALSE]
  /\ UNCHANGED <<now, cfg, cacheVars, dataMutex, managerVars, layoutVars,
                 screen_task, net, env, probe>>

(***************************************************************************)
(* ScreenUpdateTask.  Its delay, ms_task_delay_screen_update, is shorter   *)
(* than one step of the clock: the task runs again when its delay ends     *)
(* before the next value of the clock, so at one value of the clock it     *)
(* renders once or any number of times more (about Quantum \div            *)
(* ms_task_delay_screen_update times in the code), each render reading the *)
(* same value of millis().                                                 *)
(***************************************************************************)
\* ScreenUpdateTask entering its critical section without waiting for the mutex.
ScreenTakeUnguarded ==
  /\ screen_task.pc = "take"
  /\ now + Quantum > screen_task.wake
  /\ dataMutex' = "screen"
  /\ screen_task' = [screen_task EXCEPT !.pc = "locked"]
  /\ UNCHANGED <<now, cfg, cacheVars, managerVars, layoutVars, data_task, net, env, probe>>

ScreenTake ==
  /\ screen_task.pc = "take"
  /\ now + Quantum > screen_task.wake
  /\ dataMutex = "none"
  /\ dataMutex' = "screen"
  /\ screen_task' = [screen_task EXCEPT !.pc = "locked"]
  /\ UNCHANGED <<now, cfg, cacheVars, managerVars, layoutVars, data_task, net, env, probe>>

\* The toggle test taken strictly.
ToggleDueStrict(current_time, last_toggle) == current_time - last_toggle > ms_toggle_interval

\* The toggle of lines 1667-1672.
ToggleDue(current_time, last_toggle) == current_time - last_toggle >= ms_toggle_interval

\* The empty structure sized for the largest line count.
EmptyStructureMax(config) == [i \in 1..cnt_max_lines |-> << >>]

\* monitors_per_line.resize(numLines) on the empty vector (lines 1656-1659).
EmptyStructure(config) == [i \in 1..config.cnt_lines |-> << >>]

\* updateScreen taking "no data yet" from the first bucket instead of the vector.
UpdateScreenFirstBucket ==
  /\ screen_task.pc = "locked"
  /\ LET empty == monitors_per_line = << >> \/ monitors_per_line[1] = << >>
         mpl == IF empty THEN EmptyStructure(cfg) ELSE monitors_per_line
         toggle == ~empty /\ ToggleDue(now, last_toggle_time)
         show == IF toggle THEN ~show_first_departure ELSE show_first_departure
         scr == IF toggle THEN FullResetScroll(screen) ELSE screen
         drawn == DrawTraficOnScreen(scr, mpl, cfg, show, now,
                                     SplittedStringCache, last_min_size)
     IN /\ monitors_per_line' = mpl
        /\ show_first_departure' = show
        /\ last_toggle_time' = IF toggle THEN now ELSE last_toggle_time
        /\ screen' = drawn.screen
        /\ SplittedStringCache' = drawn.SplittedStringCache
        /\ last_min_size' = drawn.last_min_size
  /\ screen_task' = [screen_task EXCEPT !.pc = "give"]
  /\ UNCHANGED <<now, cfg, cacheVars, dataMutex, data_task, net, env, probe>>

\* TraficManager::updateScreen.
UpdateScreen ==
  /\ screen_task.pc = "locked"
  /\ LET empty == monitors_per_line = << >>
         mpl == IF empty THEN EmptyStructure(cfg) ELSE monitors_per_line
         toggle == ~empty /\ ToggleDue(now, last_toggle_time)
         show == IF toggle THEN ~show_first_departure ELSE show_first_departure
         scr == IF toggle THEN FullResetScroll(screen) ELSE screen
         drawn == DrawTraficOnScreen(scr, mpl, cfg, show, now,
                                     SplittedStringCache, last_min_size)
     IN /\ monitors_per_line' = mpl
        /\ show_first_departure' = show
        /\ last_toggle_time' = IF toggle THEN now ELSE last_toggle_time
        /\ screen' = drawn.screen
        /\ SplittedStringCache' = drawn.SplittedStringCache
        /\ last_min_size' = drawn.last_min_size
  /\ screen_task' = [screen_task EXCEPT !.pc = "give"]
  /\ UNCHANGED <<now, cfg, cacheVars, dataMutex, data_task, net, env, probe>>

\* xSemaphoreGive and vTaskDelay(ms_task_delay_screen_update).
\* The render task going to sleep with the mutex still held.
ScreenGiveKeepsMutex ==
  /\ screen_task.pc = "give"
  /\ screen_task' = [pc |-> "take", wake |-> now + ms_task_delay_screen_update]
  /\ UNCHANGED <<now, cfg, cacheVars, dataMutex, managerVars, layoutVars, data_task, net,
                 env, probe>>

ScreenGive ==
  /\ screen_task.pc = "give"
  /\ dataMutex' = "none"
  /\ screen_task' = [pc |-> "take", wake |-> now + ms_task_delay_screen_update]
  /\ UNCHANGED <<now, cfg, cacheVars, managerVars, layoutVars, data_task, net, env, probe>>

(***************************************************************************)
(* Time.  The clock moves on by Quantum when each task waits in a delay,   *)
(* on the mutex, or for the HTTP response (at most MaxNetDur).             *)
(* ScreenUpdateTask has rendered at least once at every value of the       *)
(* clock before the clock moves on, and may render again before it does.   *)
(***************************************************************************)
DataWaits ==
  \/ data_task.pc \in {"spacing", "parsed", "sleep"} /\ now < data_task.wake
  \/ data_task.pc = "in_net" /\ now - net.start < MaxNetDur
  \/ data_task.pc = "take" /\ dataMutex # "none"

ScreenWaits ==
  screen_task.pc = "take" /\ (now < screen_task.wake \/ dataMutex # "none")

Tick ==
  /\ DataWaits
  /\ ScreenWaits
  /\ now + Quantum <= env.horizon
  /\ now' = now + Quantum
  /\ UNCHANGED <<cfg, cacheVars, dataMutex, managerVars, layoutVars, data_task,
                 screen_task, net, env, probe>>

\* ResetActionsTask reads the button once every ms_task_delay_resset_button
\* and calls ESP.restart() when the button is released after more than
\* sec_press_soft_resset_button reads in a row found it pressed, when more
\* than sec_press_hard_resset_button reads in a row did, and when millis()
\* has reached ms_reboot_interval.  The earliest a button restart can come is
\* the read after sec_press_soft_resset_button + 1 reads.  Both button
\* restarts clear the WiFi settings, so setup() runs the portal again and
\* takes the configuration entered there; the timed restart keeps the
\* configuration.  After the restart everything in RAM is as setup() makes it.
ResetActionsTask ==
  /\ \E pressed \in BOOLEAN :
       /\ IF pressed
            THEN now >= (sec_press_soft_resset_button + 1) * ms_task_delay_resset_button
            ELSE now >= ms_reboot_interval
       /\ cfg' \in IF pressed THEN env.configs ELSE {cfg}
  /\ now' = StartTime
  /\ cache' = EmptyMap
  /\ last_api_call_ms' = 0
  /\ dataMutex' = "none"
  /\ monitors_per_line' = << >>
  /\ last_toggle_time' = 0
  /\ show_first_departure' = TRUE
  /\ last_min_size' = -1
  /\ SplittedStringCache' = EmptyMap
  /\ screen' = NewScreen(cfg'.cnt_lines)
  /\ data_task' = [pc |-> "attempt", wake |-> 0, retry_attempt |-> 0,
                   update_successful |-> FALSE, sm_start |-> 0, which |-> "main",
                   rbl_id |-> "", current_ms |-> 0, hit |-> FALSE,
                   rbl_json |-> EmptyPayload, tempTrafficSet |-> << >>,
                   line3TrafficSet |-> << >>, execution_ms |-> 0,
                   delay_real_ms |-> 0, planned_ms |-> 0, sort_idx |-> 0,
                   fail_streak |-> 0, published |-> << >>]
  /\ screen_task' = [pc |-> "take", wake |-> 0]
  /\ net' = [count |-> 0, start |-> 0, prev_start |-> 0]
  /\ UNCHANGED <<env, probe>>

Next ==
  \/ DataBeginAttempt
  \/ FetchRBLEnter
  \/ FetchRBLDelayDone
  \/ GetJsonCall
  \/ GetJsonReturn
  \/ ParseAndFilter
  \/ AfterParse
  \/ DataTake
  \/ DataInstall
  \/ UpdateSortLine
  \/ UpdateFinish
  \/ DataGive
  \/ DataWake
  \/ ScreenTake
  \/ UpdateScreen
  \/ ScreenGive
  \/ ResetActionsTask
  \/ Tick

Spec == Init /\ [][Next]_vars

\* The steps of UpdateDataTask and of ScreenUpdateTask, but for the parse and
\* for updateScreen.
DataNext ==
  \/ DataBeginAttempt
  \/ FetchRBLEnter
  \/ FetchRBLDelayDone
  \/ GetJsonCall
  \/ GetJsonReturn
  \/ AfterParse
  \/ DataTake
  \/ DataInstall
  \/ UpdateSortLine
  \/ UpdateFinish
  \/ DataGive
  \/ DataWake

ScreenNext ==
  \/ ScreenTake
  \/ ScreenGive

\* The server answers, with departures or with nothing, until OutageFrom and
\* fails for good afterwards.  Each
\* task takes its next step when it can (a task that is not blocked in a
\* delay, on the mutex or in the HTTP call is ready, and UpdateDataTask, of
\* the higher priority, blocks in every iteration), every HTTP call returns,
\* and the clock goes on.  ParseAndFilter and UpdateScreen are enabled exactly
\* at one position of their task and always leave it, so their weak fairness
\* is that the task is again and again not at that position.  ScreenUpdateTask
\* takes and gives the mutex again and again within one value of the clock, so
\* the next step of UpdateDataTask and the step of the clock are enabled again
\* and again rather than for good, and their fairness is strong: the mutex
\* given goes to the waiting task of the higher priority, and the clock goes
\* on whatever the tasks do.  The button is
\* not pressed for ever: from some time on the chip is not restarted.
InitLive == InitWith(Env({EmptyPayload, PayloadA}, OutageFrom, LiveHorizon))

SpecLive ==
  /\ InitLive
  /\ [][Next]_vars
  /\ SF_vars(DataNext)
  /\ []<>(data_task.pc # "parse")
  /\ WF_vars(ScreenNext)
  /\ []<>(screen_task.pc # "locked")
  /\ SF_vars(Tick)
  /\ <>[][now' >= now]_vars

\* The server is healthy until OutageFrom and unreachable afterwards.
InitOutage == InitWith(Env({PayloadA, JunkPayload}, OutageFrom, MaxOutageTime))

SpecOutage == InitOutage /\ [][Next]_vars

\* Three display lines with line 3 on a stop of its own, and with line 3 on the
\* main stop under a filter of its own.
ConfigSeparate == Config(3, <<"D", ",", "2">>, "4202", <<Str_D, EmptyStr, EmptyStr>>, "147", Str_U6)
ConfigShared == Config(3, <<"D", ",", "2">>, "4202", <<Str_D, EmptyStr, EmptyStr>>, "4202", Str_U6)

InitLine3 ==
  /\ InitProgramFor(Env(Payloads, MaxTime + Quantum, MaxTime), {ConfigSeparate, ConfigShared})
  /\ probe = NoProbe

SpecLine3 == InitLine3 /\ [][Next]_vars

(***************************************************************************)
(* The parser taken alone: GetMonitorsFromJson applied to one response.    *)
(***************************************************************************)
\* Three lines with a stop of their own for line 3 and filters that match no
\* route of PayloadA: with that answer both results of an attempt are empty
\* although both responses parse.  PayloadB has route 2.
ConfigNoMatch ==
  Config(3, Str_2, "4202", <<EmptyStr, EmptyStr, EmptyStr>>, "147", Str_2)

InitNoMatch ==
  /\ InitProgramFor(Env({EmptyPayload, PayloadA, PayloadB}, MaxTime + Quantum, MaxTime),
                    {ConfigNoMatch})
  /\ probe = NoProbe

SpecNoMatch == InitNoMatch /\ [][Next]_vars

\* The server always answers with departures; the clock runs past the second
\* periodic poll.
InitSteady ==
  /\ InitProgramFor(Env({PayloadA}, SteadyHorizon + Quantum, SteadyHorizon), Configs)
  /\ probe = NoProbe

SpecSteady == InitSteady /\ [][Next]_vars

\* Line 3 on a stop of its own, the server answering with departures or with
\* nothing, the clock running past the second periodic poll.
InitPartial ==
  /\ InitProgramFor(Env({EmptyPayload, PayloadA}, PartialHorizon + Quantum, PartialHorizon),
                    {ConfigSeparate})
  /\ probe = NoProbe

SpecPartial == InitPartial /\ [][Next]_vars

\* The server answers with the departures of a route under an alert, whose
\* text scrolls, or with nothing.  The device of two lines is followed past
\* its second periodic poll, the device with line 3 on a stop of its own
\* through its first.
InitAlert ==
  /\ \/ InitProgramFor(Env({EmptyPayload, PayloadB}, PartialHorizon + Quantum, PartialHorizon),
                       {c \in Configs : c.cnt_lines = cnt_default_lines})
     \/ InitProgramFor(Env({EmptyPayload, PayloadB}, MaxTime + Quantum, MaxTime),
                       {ConfigSeparate})
  /\ probe = NoProbe

SpecAlert == InitAlert /\ [][Next]_vars

\* A stop served by two monitor entries of the same route and direction, each
\* listing its departures in ascending order.
PayloadMerged ==
  JsonPayload(<< >>,
    << Line(Str_D, Txt_Nussdorf,
            << Item(FALSE, TRUE, EmptyStr, EmptyStr, 4),
               Item(FALSE, TRUE, EmptyStr, EmptyStr, 12) >>),
       Line(Str_D, Txt_Nussdorf,
            << Item(TRUE, TRUE, Str_D, Txt_Nussdorf, 2),
               Item(TRUE, TRUE, Str_D, Txt_Nussdorf, 9) >>) >>)

InitMerged ==
  /\ InitProgramFor(Env({EmptyPayload, PayloadMerged}, MaxTime + Quantum, MaxTime), Configs)
  /\ probe = NoProbe

SpecMerged == InitMerged /\ [][Next]_vars

SeqsUpTo(S, n) == UNION {[1..k -> S] : k \in 0..n}

ParseItems ==
  { Item(TRUE, TRUE, Str_D, Txt_Nussdorf, 3),
    Item(TRUE, TRUE, Str_D, Txt_Nussdorf, -1),
    Item(TRUE, TRUE, Str_2, Txt_Oper, 5),
    Item(FALSE, TRUE, EmptyStr, EmptyStr, 7),
    Item(FALSE, TRUE, EmptyStr, EmptyStr, -1),
    Item(TRUE, FALSE, Str_D, Txt_Nussdorf, 9) }

ParseInputs ==
  {EmptyPayload, JunkPayload} \cup
  { JsonPayload(<< Info(Txt_Alert, <<Str_2>>) >>,
                << Line(Str_D, Txt_Nussdorf, s1),
                   [Line(Str_2, Txt_Oper, s2) EXCEPT !.isArray = a] >>) :
      s1 \in SeqsUpTo(ParseItems, MaxDepartures),
      s2 \in SeqsUpTo(ParseItems, 1),
      a \in BOOLEAN }

InitParse ==
  /\ InitProgram(Env({}, 0, 0))
  /\ probe \in {[fn |-> "GetMonitorsFromJson", json |-> p, pc |-> "call", wake |-> 0,
                  done |-> FALSE, out |-> << >>] :
                  p \in ParseInputs}

\* One call of GetMonitorsFromJson, up to its return or to the delay() of the
\* response that does not parse: there the caller is held until wake and has
\* no result yet.
ParseProbe ==
  /\ probe.fn = "GetMonitorsFromJson"
  /\ probe.pc = "call"
  /\ probe' = IF PayloadParses(probe.json)
                THEN [probe EXCEPT !.pc = "returned", !.done = TRUE,
                                   !.out = GetMonitorsFromJson(probe.json)]
                ELSE [probe EXCEPT !.pc = "delay",
                                   !.wake = now + ParseDelay(probe.json)]
  /\ UNCHANGED <<now, cfg, cacheVars, dataMutex, managerVars, layoutVars, data_task,
                 screen_task, net, env>>

\* Time passing while the call sits in delay().
ParseDelayTick ==
  /\ probe.fn = "GetMonitorsFromJson"
  /\ probe.pc = "delay"
  /\ now < probe.wake
  /\ now' = now + Quantum
  /\ UNCHANGED <<cfg, cacheVars, dataMutex, managerVars, layoutVars, data_task,
                 screen_task, net, env, probe>>

\* The return of the empty vector once the delay is over.
ParseReturn ==
  /\ probe.fn = "GetMonitorsFromJson"
  /\ probe.pc = "delay"
  /\ now >= probe.wake
  /\ probe' = [probe EXCEPT !.pc = "returned", !.done = TRUE,
                            !.out = GetMonitorsFromJson(probe.json)]
  /\ UNCHANGED <<now, cfg, cacheVars, dataMutex, managerVars, layoutVars, data_task,
                 screen_task, net, env>>

NextParse ==
  \/ ParseProbe
  \/ ParseDelayTick
  \/ ParseReturn

SpecParse == InitParse /\ [][NextParse]_vars

(***************************************************************************)
(* The pure functions taken alone: each probe holds the input of one       *)
(* function and, once the function has run, its result.                    *)
(***************************************************************************)
CountdownLists == {<< >>, <<2>>, <<5>>, <<5, 3>>, <<5, 9>>}

GroupNames == <<"A", "B", "C", "D">>

\* Buckets of up to MaxGroups groups, the i-th named by the i-th letter.
SortInputs ==
  { [i \in 1..Len(cds) |-> Monitor(<<GroupNames[i]>>, Txt_Oper, EmptyStr, cds[i])] :
      cds \in SeqsUpTo(CountdownLists, MaxGroups) }

SortProbes == {[fn |-> "sortTrafic", in |-> v, done |-> FALSE, out |-> << >>] : v \in SortInputs}

SortProbe ==
  /\ probe.fn = "sortTrafic"
  /\ ~probe.done
  /\ \E sorted \in sortTrafic(probe.in) :
       probe' = [probe EXCEPT !.done = TRUE, !.out = sorted]
  /\ UNCHANGED <<now, cfg, cacheVars, dataMutex, managerVars, layoutVars, data_task,
                 screen_task, net, env>>

FilterTexts ==
  { EmptyStr, <<"D", ",", "2">>, Str_U6, <<"D", ",", "D">>, <<"2", ",">>, <<"X">>,
    <<"U", ",", "6">> }

\* Group sequences of up to MaxGroups groups named D, 2 or U6.
NamedGroups ==
  { [i \in 1..Len(names) |-> Monitor(names[i], <<GroupNames[i]>>, EmptyStr, <<i>>)] :
      names \in SeqsUpTo({Str_D, Str_2, Str_U6}, MaxGroups) }

FilterProbes ==
  { [fn |-> "GetFilteredMonitors", in |-> v, filter |-> f, done |-> FALSE, out |-> << >>] :
      v \in NamedGroups, f \in FilterTexts }

FilterProbe ==
  /\ probe.fn = "GetFilteredMonitors"
  /\ ~probe.done
  /\ probe' = [probe EXCEPT !.done = TRUE,
                            !.out = GetFilteredMonitors(probe.in, probe.filter)]
  /\ UNCHANGED <<now, cfg, cacheVars, dataMutex, managerVars, layoutVars, data_task,
                 screen_task, net, env>>

\* Every line count with every naming of the three lines by "", D or U6.
LineConfigs ==
  { Config(n, EmptyStr, "4202", names, "", EmptyStr) :
      n \in cnt_min_lines..cnt_max_lines,
      names \in [1..cnt_max_lines -> {EmptyStr, Str_D, Str_U6}] }

LinesProbes ==
  { [fn |-> "GetMonitorsPerDisplayLine", in |-> v, config |-> c, done |-> FALSE,
     out |-> << >>] : v \in NamedGroups, c \in LineConfigs }

LinesProbe ==
  /\ probe.fn = "GetMonitorsPerDisplayLine"
  /\ ~probe.done
  /\ probe' = [probe EXCEPT !.done = TRUE,
                            !.out = GetMonitorsPerDisplayLine(probe.in, probe.config)]
  /\ UNCHANGED <<now, cfg, cacheVars, dataMutex, managerVars, layoutVars, data_task,
                 screen_task, net, env>>

DrawCountdowns == {<< >>, <<0>>, <<4>>, <<0, 6>>, <<4, 12>>, <<3, 7, 15>>}

\* Sorted buckets of up to two groups, as update() leaves them.
DrawBuckets ==
  UNION { sortTrafic([i \in 1..Len(cds) |->
                        Monitor(<<GroupNames[i]>>, Txt_Oper, EmptyStr, cds[i])]) :
            cds \in SeqsUpTo(DrawCountdowns, 2) }

\* Two display lines without names, either toggle phase, either blink phase.
DrawProbes ==
  { [fn |-> "DrawTraficOnScreen", mpl |-> <<b1, b2>>, show_first |-> sf, t |-> t,
     done |-> FALSE, out |-> << >>] :
      b1 \in DrawBuckets, b2 \in DrawBuckets, sf \in BOOLEAN,
      t \in {StartTime, StartTime + Quantum} }

\* DrawTraficOnScreen on a new Screen: the call fills SplittedStringCache, sets
\* last_min_size and draws the rows; out keeps the vec_screen_entity handed to
\* SetRow.
DrawProbe ==
  /\ probe.fn = "DrawTraficOnScreen"
  /\ ~probe.done
  /\ LET config == Config(cnt_default_lines, EmptyStr, "4202",
                          <<EmptyStr, EmptyStr, EmptyStr>>, "", EmptyStr)
         drawn == DrawTraficOnScreen(NewScreen(config.cnt_lines), probe.mpl, config,
                                     probe.show_first, probe.t,
                                     SplittedStringCache, last_min_size)
     IN /\ probe' = [probe EXCEPT !.done = TRUE, !.out = drawn.vec_screen_entity]
        /\ screen' = drawn.screen
        /\ SplittedStringCache' = drawn.SplittedStringCache
        /\ last_min_size' = drawn.last_min_size
  /\ UNCHANGED <<now, cfg, cacheVars, dataMutex, managerVars, data_task,
                 screen_task, net, env>>

Txt_Umleitung == <<"U","m","l","e","i","t","u","n","g">>

\* A screen of cnt_rows rows in the middle of a scroll.  The kick-off flag is
\* set on the second sub-line only: DrawMiddleText sets it for i > 0.
ScrolledScreen(cnt_rows) ==
  [NewScreen(cnt_rows) EXCEPT
     !.vec_scrolls_coords = [r \in DOMAIN @ |-> [l \in DOMAIN @[r] |-> 0 - 4 * r]],
     !.vec_init_scrolls_coords = [r \in DOMAIN @ |-> [l \in DOMAIN @[r] |-> l > 1]]]

\* Snapshots of up to two rows; a row is line D with or without an alert text
\* and one of two destinations.  The screen has two or three rows.
ResetProbes ==
  LET rows == { Monitor(Str_D, t, d, <<5>>) :
                  t \in {Txt_Oper, Txt_Nussdorf},
                  d \in {EmptyStr, Txt_Alert, Txt_Umleitung} }
  IN { [fn |-> "SelectiveReset", scr |-> ScrolledScreen(n), current |-> c, future |-> f,
        done |-> FALSE, out |-> << >>] :
         n \in {cnt_default_lines, cnt_max_lines},
         c \in SeqsUpTo(rows, 2), f \in SeqsUpTo(rows, 2) }

\* One call of SelectiveReset on the Screen of the probe; the Screen is as the
\* call leaves it.
ResetProbe ==
  /\ probe.fn = "SelectiveReset"
  /\ ~probe.done
  /\ \E past \in [1..cnt_max_lines -> BOOLEAN] :
       probe' = [probe EXCEPT
                   !.done = TRUE,
                   !.out = SelectiveReset(probe.scr, probe.current, probe.future, past)]
  /\ screen' = probe'.out
  /\ UNCHANGED <<now, cfg, cacheVars, dataMutex, managerVars, last_min_size,
                 SplittedStringCache, data_task, screen_task, net, env>>

(***************************************************************************)
(* Config::cnt_lines taken alone: one Config object, a copy of it and the   *)
(* saved file, under the operations that write the line count.             *)
(***************************************************************************)
DigitValue(c) ==
  CHOOSE v \in 0..9 : <<"0","1","2","3","4","5","6","7","8","9">>[v + 1] = c

IsDigit(c) == c \in {"0","1","2","3","4","5","6","7","8","9"}

\* The digits of str from position i on, read as strtol does: up to the first
\* character that is no digit, the number of sign sgn held at LONG_MAX and at
\* LONG_MIN (long has 32 bits).
RECURSIVE DigitsFrom(_, _, _, _)
DigitsFrom(str, i, acc, sgn) ==
  IF i > Len(str) \/ ~IsDigit(str[i]) THEN acc
  ELSE LET d == DigitValue(str[i])
           q == INT_MAX \div 10
           r == INT_MAX % 10
       IN DigitsFrom(str, i + 1,
                     IF sgn > 0
                       THEN IF acc > q \/ (acc = q /\ d > r)
                              THEN INT_MAX ELSE acc * 10 + d
                       ELSE IF acc < 0 - q \/ (acc = 0 - q /\ d > r + 1)
                              THEN 0 - INT_MAX - 1 ELSE acc * 10 - d,
                     sgn)

RECURSIVE SkipSpaces(_, _)
SkipSpaces(str, i) ==
  IF i <= Len(str) /\ isspace(str[i]) THEN SkipSpaces(str, i + 1) ELSE i

\* String::toInt (atol): leading white space, an optional sign, then digits; 0
\* when no digit follows.
toInt(str) ==
  LET i == SkipSpaces(str, 1)
  IN IF i <= Len(str) /\ str[i] = "-" THEN DigitsFrom(str, i + 1, 0, -1)
     ELSE IF i <= Len(str) /\ str[i] = "+" THEN DigitsFrom(str, i + 1, 0, 1)
     ELSE DigitsFrom(str, i, 0, 1)

\* The count stored as given, without the range check.
verifyLinesCountInputNone(count) == count

\* Config::verifyLinesCountInput.
verifyLinesCountInput(count) ==
  IF count >= cnt_min_lines /\ count <= cnt_max_lines THEN count ELSE cnt_default_lines

LineCountInts == {0 - INT_MAX - 1, -1, 0, 1, 2, 3, 4, 10, INT_MAX}

LineCountTexts ==
  { EmptyStr, <<"0">>, <<"1">>, <<"2">>, <<"3">>, <<"4">>, <<"-", "1">>, <<"1", "2">>,
    <<"a", "b", "c">>, <<"n", "u", "l", "l">>, <<"3", "a", "b", "c">>, <<" ", "7">>,
    <<"4", ".", "2">>, <<"9", "9", "9", "9", "9", "9", "9", "9", "9", "9", "9">>,
    <<"\t", "3">>, <<"-", "2", "1", "4", "7", "4", "8", "3", "6", "4", "9">> }

\* The config file as deserializeJson reads it: whether it parses, and the text
\* json["lines_count"].as<String>() then gives, "null" for a document without
\* that member.  NoDocument is a file that does not parse, an empty one among
\* them, and the value kept while there is no file.
NoDocument == [parses |-> FALSE, lines_count |-> EmptyStr]

ConfigFiles ==
  {NoDocument} \cup {[parses |-> TRUE, lines_count |-> t] : t \in LineCountTexts}

\* Config() for the object and its copy; the file holds any document or is
\* absent.  op, int_arg and str_arg are the last operation and its argument.
ConfigProbes ==
  { [fn |-> "Config", cnt_lines |-> cnt_default_lines, copy |-> cnt_default_lines,
     has_file |-> f.has_file, file |-> f.file, op |-> "Config", int_arg |-> 0,
     str_arg |-> EmptyStr, loaded |-> FALSE] :
       f \in {[has_file |-> FALSE, file |-> NoDocument]}
                \cup {[has_file |-> TRUE, file |-> d] : d \in ConfigFiles} }

InitConfig ==
  /\ InitProgram(Env({}, 0, 0))
  /\ probe \in ConfigProbes

\* Config::SetLinesCount(int).
SetLinesCountInt ==
  /\ probe.fn = "Config"
  /\ \E c \in LineCountInts :
       probe' = [probe EXCEPT !.cnt_lines = verifyLinesCountInput(c),
                              !.op = "SetLinesCount(int)", !.int_arg = c,
                              !.str_arg = EmptyStr]
  /\ UNCHANGED <<now, cfg, cacheVars, dataMutex, managerVars, layoutVars, data_task,
                 screen_task, net, env>>

\* Config::SetLinesCount(const String&), as the portal calls it at line 2633.
SetLinesCountString ==
  /\ probe.fn = "Config"
  /\ \E c \in LineCountTexts :
       probe' = [probe EXCEPT !.cnt_lines = verifyLinesCountInput(toInt(c)),
                              !.op = "SetLinesCount(String)", !.int_arg = 0,
                              !.str_arg = c]
  /\ UNCHANGED <<now, cfg, cacheVars, dataMutex, managerVars, layoutVars, data_task,
                 screen_task, net, env>>

\* The copy constructor and operator=, in either direction.
ConfigCopy ==
  /\ probe.fn = "Config"
  /\ \/ probe' = [probe EXCEPT !.copy = probe.cnt_lines,
                                !.op = "copy", !.int_arg = 0, !.str_arg = EmptyStr]
     \/ probe' = [probe EXCEPT !.cnt_lines = probe.copy,
                                !.op = "assign", !.int_arg = 0, !.str_arg = EmptyStr]
  /\ UNCHANGED <<now, cfg, cacheVars, dataMutex, managerVars, layoutVars, data_task,
                 screen_task, net, env>>

\* ConfigFileHandler::SaveConfigFile: the document written holds
\* GetLinesCountAsString() as "lines_count".  SPIFFS.open(.., "w") empties the
\* file; when serializeJson then fails to write, the file is left empty or cut
\* short, a file that does not parse.  With the file not opened for writing
\* nothing is written.
SaveConfigFile ==
  /\ probe.fn = "Config"
  /\ \E outcome \in {"written", "write failed", "not opened"} :
       probe' = CASE outcome = "written" ->
                       [probe EXCEPT !.has_file = TRUE,
                                     !.file = [parses |-> TRUE,
                                               lines_count |-> DecText(probe.cnt_lines)],
                                     !.op = "save", !.int_arg = 0, !.str_arg = EmptyStr]
                  [] outcome = "write failed" ->
                       [probe EXCEPT !.has_file = TRUE, !.file = NoDocument,
                                     !.op = "save", !.int_arg = 0, !.str_arg = EmptyStr]
                  [] OTHER ->
                       [probe EXCEPT !.op = "save", !.int_arg = 0, !.str_arg = EmptyStr]
  /\ UNCHANGED <<now, cfg, cacheVars, dataMutex, managerVars, layoutVars, data_task,
                 screen_task, net, env>>

\* ConfigFileHandler::LoadConfigFile: with the file system mounted, the file
\* there, opened and parsed, the text of "lines_count" goes to SetLinesCount and
\* the call returns true; in every other case the object is left as it was and
\* the call returns false.
LoadConfigFile ==
  /\ probe.fn = "Config"
  /\ \E opened \in BOOLEAN :
       probe' = IF opened /\ probe.has_file /\ probe.file.parses
                  THEN [probe EXCEPT
                          !.cnt_lines = verifyLinesCountInput(toInt(probe.file.lines_count)),
                          !.loaded = TRUE,
                          !.op = "load", !.int_arg = 0, !.str_arg = EmptyStr]
                  ELSE [probe EXCEPT
                          !.loaded = FALSE,
                          !.op = "load", !.int_arg = 0, !.str_arg = EmptyStr]
  /\ UNCHANGED <<now, cfg, cacheVars, dataMutex, managerVars, layoutVars, data_task,
                 screen_task, net, env>>

\* ConfigFileHandler::DeleteConfigFile, called by GlobalSettings::DeleteFile on
\* the hard reset: the file is removed when the file system mounts and the
\* removal succeeds.
DeleteConfigFile ==
  /\ probe.fn = "Config"
  /\ \E removed \in BOOLEAN :
       probe' = IF removed
                  THEN [probe EXCEPT !.has_file = FALSE, !.file = NoDocument,
                                     !.op = "delete", !.int_arg = 0, !.str_arg = EmptyStr]
                  ELSE [probe EXCEPT !.op = "delete", !.int_arg = 0, !.str_arg = EmptyStr]
  /\ UNCHANGED <<now, cfg, cacheVars, dataMutex, managerVars, layoutVars, data_task,
                 screen_task, net, env>>

NextConfig ==
  \/ SetLinesCountInt
  \/ SetLinesCountString
  \/ ConfigCopy
  \/ SaveConfigFile
  \/ LoadConfigFile
  \/ DeleteConfigFile

SpecConfig == InitConfig /\ [][NextConfig]_vars

Txt_Hauptbahnhof == <<"H","A","U","P","T","B","A","H","N","H","O","F">>
Txt_Praterstern == <<"P","r","a","t","e","r","s","t","e","r","n"," ","S","-","B","a","h","n">>
\* Two words of three e-acute (C3 A9) and an "a", then "abcdefghi": 19
\* characters, 25 bytes.
Txt_Eeea == <<"C3","A9","C3","A9","C3","A9","a"," ","C3","A9","C3","A9","C3","A9","a"," ",
              "a","b","c","d","e","f","g","h","i">>

\* One group on display line 1, its destination drawn into a middle text of the
\* given pixel width, with and without an alert text.
WrapProbes ==
  { [fn |-> "MiddleText", towards |-> t, description |-> d, min_size |-> w,
     done |-> FALSE, out |-> << >>] :
       t \in {EmptyStr, Txt_Nussdorf, Txt_Oper, Txt_Hauptbahnhof, Txt_Praterstern,
              Txt_Eeea},
       d \in {EmptyStr, Txt_Alert},
       w \in {4 * px_char_12pt, 6 * px_char_12pt, 10 * px_char_12pt, 20 * px_char_12pt} }

\* DrawTraficOnScreen on a one-row Screen whose middle text has that width;
\* out keeps entity.lines as the call builds it for the group.
WrapProbe ==
  /\ probe.fn = "MiddleText"
  /\ ~probe.done
  /\ LET config == Config(cnt_min_lines, EmptyStr, "4202",
                          <<EmptyStr, EmptyStr, EmptyStr>>, "", EmptyStr)
         scr == [NewScreen(config.cnt_lines) EXCEPT !.px_min_text_sprite = probe.min_size]
         drawn == DrawTraficOnScreen(scr, << <<Monitor(Str_D, probe.towards,
                                                       probe.description, <<5>>)>> >>,
                                     config, TRUE, StartTime,
                                     SplittedStringCache, last_min_size)
     IN /\ probe' = [probe EXCEPT !.done = TRUE, !.out = drawn.vec_screen_entity[1].lines]
        /\ screen' = drawn.screen
        /\ SplittedStringCache' = drawn.SplittedStringCache
        /\ last_min_size' = drawn.last_min_size
  /\ UNCHANGED <<now, cfg, cacheVars, dataMutex, managerVars, data_task,
                 screen_task, net, env>>

\* Every configuration of line count and line names, each display line with no
\* group or with one.
PinProbes ==
  { [fn |-> "EmptyLine", config |-> c, mpl |-> [i \in 1..c.cnt_lines |-> b[i]],
     done |-> FALSE, out |-> << >>] :
       c \in LineConfigs,
       b \in [1..cnt_max_lines -> {<< >>, <<Monitor(Str_U6, Txt_Oper, EmptyStr, <<3>>)>>}] }

\* DrawTraficOnScreen on a new Screen of the configuration; out keeps the
\* vec_screen_entity of these lines.
PinProbe ==
  /\ probe.fn = "EmptyLine"
  /\ ~probe.done
  /\ LET drawn == DrawTraficOnScreen(NewScreen(probe.config.cnt_lines), probe.mpl,
                                     probe.config, TRUE, StartTime,
                                     SplittedStringCache, last_min_size)
     IN /\ probe' = [probe EXCEPT !.done = TRUE, !.out = drawn.vec_screen_entity]
        /\ screen' = drawn.screen
        /\ SplittedStringCache' = drawn.SplittedStringCache
        /\ last_min_size' = drawn.last_min_size
  /\ UNCHANGED <<now, cfg, cacheVars, dataMutex, managerVars, data_task,
                 screen_task, net, env>>

\* Every text of up to MaxTextLen characters over a letter, the space and the
\* hyphen, against widths of 0 to MaxTextLen characters.
SplitProbes ==
  { [fn |-> "splitToString", input |-> t, min_size |-> n * px_char_12pt,
     done |-> FALSE, out |-> << >>] :
       t \in SeqsUpTo({"a", " ", "-"}, MaxTextLen), n \in 0..MaxTextLen }

\* splitToString with its sub-lines before and after the last character of
\* the non-last ones is removed, and getMaximumPosibleSingleNoScrollWord.
SplitProbe ==
  /\ probe.fn = "splitToString"
  /\ ~probe.done
  /\ probe' = [probe EXCEPT
                 !.done = TRUE,
                 !.out = [packed |-> PackFrom(splitStringToWords(probe.input, probe.min_size),
                                              1, << >>, << >>, probe.min_size),
                          subtexts |-> splitToString(probe.input, probe.min_size),
                          prefix |-> getMaximumPosibleSingleNoScrollWord(probe.input,
                                                                         probe.min_size)]]
  /\ UNCHANGED <<now, cfg, cacheVars, dataMutex, managerVars, layoutVars, data_task,
                 screen_task, net, env>>

\* Caches of no, one and two stops, with valid entries and with the invalid
\* entry a failed fetch leaves, and the stop a member function is called for.
CacheProbes ==
  LET one == CacheStore(EmptyMap, "4202", PayloadA, StartTime)
      two == CacheStore(one, "4203", PayloadB, StartTime)
      failed == CacheStore(one, "4203", EmptyPayload, StartTime)
  IN { [fn |-> f, c |-> c, rbl_id |-> id, done |-> FALSE, out |-> << >>] :
         f \in {"InvalidateCache", "ClearCache"},
         c \in {EmptyMap, one, two, failed},
         id \in {"4202", "4203"} }

\* InvalidateCache or ClearCache on that cache; what an unforced and a forced
\* FetchRBL of the stop find before and after it.
CacheProbe ==
  /\ probe.fn \in {"InvalidateCache", "ClearCache"}
  /\ ~probe.done
  /\ cache' = IF probe.fn = "ClearCache" THEN ClearCache(probe.c)
                                        ELSE InvalidateCache(probe.c, probe.rbl_id)
  /\ probe' = [probe EXCEPT
                 !.done = TRUE,
                 !.out = [before |-> CacheHit(probe.c, probe.rbl_id, FALSE, now),
                          after |-> CacheHit(cache', probe.rbl_id, FALSE, now),
                          forced |-> CacheHit(probe.c, probe.rbl_id, TRUE, now)]]
  /\ UNCHANGED <<now, cfg, last_api_call_ms, dataMutex, managerVars, layoutVars,
                 data_task, screen_task, net, env>>

\* Offsets a scroll passes through with the widths below: at rest, on the way
\* left, at and past the left end of the longer text, and after the return to
\* the right edge.
ScrollOffsets == {0 - 38, 0 - 36, 0 - 4, 0, 10, 26, 28}

\* One render tick of one row of a two-row screen.  The row drawn holds any of
\* the offsets; only a second sub-line can have been kicked off.  The other
\* row is in the middle of a scroll.  No line name or countdown has been
\* measured yet, or they are so wide that nothing is left for the middle text
\* and no sprite is made.
MidProbes ==
  LET texts == {EmptyStr, Txt_Oper, Txt_Praterstern}
      widths == {<<0, 0>>, <<5 * px_char_24pt, 3 * px_char_24pt>>}
  IN { [fn |-> "DrawMiddleText",
        scr |-> [ScrolledScreen(cnt_default_lines) EXCEPT
                   !.px_max_width_name_text = w[1],
                   !.px_max_width_countdown_text = w[2],
                   !.vec_scrolls_coords[r] = <<x1, x2>>,
                   !.vec_init_scrolls_coords[r] = <<FALSE, k2>>],
        idx_row |-> r, lines |-> ls, done |-> FALSE, out |-> << >>] :
         r \in 1..cnt_default_lines, x1 \in ScrollOffsets, x2 \in ScrollOffsets,
         k2 \in BOOLEAN, ls \in SeqsUpTo(texts, cnt_screen_lines_per_rows) \ {<< >>},
         w \in widths }

\* One call of DrawMiddleText on the Screen of the probe; the Screen is as the
\* call leaves it.
MidProbe ==
  /\ probe.fn = "DrawMiddleText"
  /\ ~probe.done
  /\ probe' = [probe EXCEPT !.done = TRUE,
                            !.out = DrawMiddleText(probe.scr, probe.lines, probe.idx_row)]
  /\ screen' = probe'.out
  /\ UNCHANGED <<now, cfg, cacheVars, dataMutex, managerVars, last_min_size,
                 SplittedStringCache, data_task, screen_task, net, env>>

\* The functions are called under the font of the sketch; the wrapping of
\* SplitProbes also under every other of Measures.
InitFn ==
  \E font \in Measures :
    /\ InitProgram([Env({}, 0, 0) EXCEPT !.font = font])
    /\ probe \in IF font = FixedPitch(px_char_12pt)
                   THEN SortProbes \cup FilterProbes \cup LinesProbes \cup DrawProbes
                          \cup ResetProbes \cup WrapProbes \cup PinProbes
                          \cup MidProbes \cup SplitProbes \cup CacheProbes
                   ELSE SplitProbes

NextFn ==
  \/ SortProbe
  \/ FilterProbe
  \/ LinesProbe
  \/ DrawProbe
  \/ ResetProbe
  \/ WrapProbe
  \/ PinProbe
  \/ MidProbe
  \/ SplitProbe
  \/ CacheProbe

SpecFn == InitFn /\ [][NextFn]_vars

(***************************************************************************)
(* Properties.                                                             *)
(***************************************************************************)
\* The step is one of the run in progress: ESP.restart() ends the run, the next
\* begins in setup(), and millis() starts again.
ProgramStep == now' >= now

\* The cache entry of rbl_id is present, valid and younger than 60,000 ms at t.
EntryFresh(rbl_id, t) ==
  /\ rbl_id \in DOMAIN cache
  /\ cache[rbl_id].is_valid
  /\ t - cache[rbl_id].timestamp_ms < 60000

\* C1: an unforced FetchRBL of a non-empty id returns the stored response without
\* a GetJson call exactly when the entry exists, is valid and is younger than
\* 60,000 ms; otherwise (absent, invalid, or aged 60,000 ms or more) it goes on to
\* a GetJson call.  So two unforced fetches of an id within the TTL make one call.
\* A restart of the chip is no step of either task and is left aside.
C1_CacheServesIffFresh ==
  [][ ProgramStep =>
    ( /\ (data_task.pc = "fetch" /\ data_task'.pc # "fetch" /\ data_task.rbl_id # "") =>
           IF EntryFresh(data_task.rbl_id, now)
             THEN /\ data_task'.pc = "parse"
                  /\ data_task'.rbl_json = cache[data_task.rbl_id].json_response
                  /\ net' = net /\ cache' = cache
             ELSE data_task'.pc \in {"spacing", "getjson"}
      /\ (data_task.pc \in {"spacing", "getjson"} /\ data_task'.pc # data_task.pc) =>
           \/ data_task.pc = "spacing" /\ data_task'.pc = "getjson"
           \/ data_task'.pc = "in_net" /\ net'.count = net.count + 1
    ) ]_vars

\* A valid entry aged exactly 60,000 ms is not served: the fetch is about to call GetJson.
C1_Witness ==
  /\ data_task.pc = "getjson"
  /\ data_task.rbl_id \in DOMAIN cache
  /\ cache[data_task.rbl_id].is_valid
  /\ data_task.current_ms - cache[data_task.rbl_id].timestamp_ms = 60000

\* C2: of any two consecutive GetJson calls made through FetchRBL, the later one
\* starts at least 3,000 ms after the earlier one started.
C2_CallsSpaced ==
  net.count >= 2 => net.start - net.prev_start >= 3000

\* Two calls exactly 3,000 ms apart: the line-3 fetch right after the main fetch.
C2_Witness ==
  /\ net.count >= 2
  /\ net.start - net.prev_start = 3000
  /\ data_task.which = "line3"

\* The departure records of a response in document order, each resolved to its
\* (name, towards) pair and countdown.
RECURSIVE ResolvedRecords(_)
ResolvedRecords(lines) ==
  IF lines = << >> THEN << >>
  ELSE LET line == Head(lines)
       IN (IF line.isArray
             THEN [i \in 1..Len(line.departures) |-> ResolveItem(line, line.departures[i])]
             ELSE << >>)
          \o ResolvedRecords(Tail(lines))

CountdownsFor(recs, n, t) ==
  LET Counts(r) == r.name = n /\ r.towards = t /\ r.countdown # -1
      sel == SelectSeq(recs, Counts)
  IN [i \in 1..Len(sel) |-> sel[i].countdown]

\* C3: GetMonitorsFromJson returns at most one Monitor per (name, towards), and
\* each Monitor's countdown list is the concatenation, in input order, of the
\* countdowns of the records resolving to its pair, those equal to -1 left out.
C3_OneMonitorPerPair ==
  (probe.fn = "GetMonitorsFromJson" /\ probe.done) =>
    LET out == probe.out
        recs == ResolvedRecords(probe.json.lines)
    IN /\ \A i, j \in 1..Len(out) :
            (out[i].name = out[j].name /\ out[i].towards = out[j].towards) => i = j
       /\ \A i \in 1..Len(out) :
            out[i].countdown = CountdownsFor(recs, out[i].name, out[i].towards)
       /\ \A k \in 1..Len(recs) :
            \E i \in 1..Len(out) :
              out[i].name = recs[k].name /\ out[i].towards = recs[k].towards

\* Records of two lines merged into one Monitor, with a -1 among them left out.
C3_Witness ==
  /\ probe.fn = "GetMonitorsFromJson" /\ probe.done
  /\ \E i \in 1..Len(probe.out) : Len(probe.out[i].countdown) >= 3
  /\ \E k \in 1..Len(ResolvedRecords(probe.json.lines)) :
       ResolvedRecords(probe.json.lines)[k].countdown = -1
  /\ Len(probe.out) < Len(ResolvedRecords(probe.json.lines))

ScrollCleared(scr) ==
  \A r \in DOMAIN scr.vec_scrolls_coords :
    \A l \in DOMAIN scr.vec_scrolls_coords[r] :
      scr.vec_scrolls_coords[r][l] = 0 /\ ~scr.vec_init_scrolls_coords[r][l]

\* C4: when an attempt yields an empty main list and an empty line-3 list, the
\* critical section does not call update(): it goes straight to the release with
\* update_successful false, and monitors_per_line, show_first_departure,
\* last_toggle_time and every scroll offset and kick-off flag stay as they were.
\* A restart of the chip is no step of either task and is left aside.
C4_FailureKeepsState ==
  [][ ProgramStep =>
    ( ( /\ data_task.pc \in {"locked", "give"}
        /\ data_task' # data_task
        /\ data_task.tempTrafficSet = << >>
        /\ data_task.line3TrafficSet = << >> ) =>
        /\ data_task.pc = "locked" => data_task'.pc = "give"
        /\ ~data_task'.update_successful
        /\ data_task'.published = data_task.published
        /\ monitors_per_line' = monitors_per_line
        /\ show_first_departure' = show_first_departure
        /\ last_toggle_time' = last_toggle_time
        /\ screen' = screen
    ) ]_vars

\* A failed attempt about to release the mutex, the earlier data and a scroll in
\* progress still in place.
C4_Witness ==
  /\ data_task.pc = "give"
  /\ ~data_task.update_successful
  /\ data_task.tempTrafficSet = << >> /\ data_task.line3TrafficSet = << >>
  /\ data_task.published # << >>
  /\ monitors_per_line = data_task.published
  /\ ~ScrollCleared(screen)

\* C5: whenever ScreenUpdateTask is inside updateScreen, UpdateDataTask is outside
\* its critical section and monitors_per_line is what the last completed update()
\* left (or, before the first update, the empty lines updateScreen itself made):
\* never a partly replaced or partly sorted value.
C5_ScreenReadsCompleteUpdate ==
  screen_task.pc = "locked" =>
    /\ dataMutex = "screen"
    /\ data_task.pc \notin {"locked", "sort", "give"}
    /\ \/ monitors_per_line = data_task.published
       \/ /\ data_task.published = << >>
          /\ monitors_per_line = [i \in 1..cfg.cnt_lines |-> << >>]
    /\ \A i \in 1..Len(monitors_per_line) : IsSortedLine(monitors_per_line[i])

\* updateScreen runs on published data while UpdateDataTask, with new data in
\* hand, waits for the mutex.
C5_Witness ==
  /\ screen_task.pc = "locked"
  /\ data_task.pc = "take"
  /\ data_task.tempTrafficSet # << >>
  /\ data_task.published # << >>
  /\ monitors_per_line = data_task.published

\* C6: UpdateDataTask does not hold dataMutex while GetJson is in progress or
\* while FetchRBL sleeps for the 3,000 ms spacing.
C6_NoMutexDuringNetwork ==
  data_task.pc \in {"fetch", "spacing", "getjson", "in_net"} => dataMutex # "data"

\* The screen task holds the mutex while the line-3 request is in flight.
C6_Witness ==
  /\ data_task.pc = "in_net"
  /\ data_task.which = "line3"
  /\ dataMutex = "screen"

\* C7: at the sleep that ends an attempt: after the k-th consecutive failure,
\* k = 1..5, the sleep is max(0, D_k - time spent) with D = 5000, 10000, 15000,
\* 20000, 40000; a round uses the table at most 5 times; after a success the
\* sleep is max(0, 60000 - time spent).
C7_RetryTable ==
  data_task.pc = "sleep" =>
    LET D == <<5000, 10000, 15000, 20000, 40000>>
        k == data_task.fail_streak
        spent == data_task.execution_ms
        slept == data_task.delay_real_ms
    IN /\ data_task.wake = data_task.sm_start + spent + slept
       /\ (~data_task.update_successful /\ k \in 1..5) =>
            slept = (IF D[k] - spent > 0 THEN D[k] - spent ELSE 0)
       /\ data_task.update_successful =>
            slept = (IF 60000 - spent > 0 THEN 60000 - spent ELSE 0)
       /\ data_task.retry_attempt <= 5
       /\ (~data_task.update_successful /\ data_task.retry_attempt < 5) =>
            data_task.planned_ms = D[data_task.retry_attempt + 1]
       /\ data_task.retry_attempt = 5 => data_task.planned_ms = 60000

\* The sleep after the fifth consecutive failure: 40,000 ms less the time spent.
C7_Witness ==
  /\ data_task.pc = "sleep"
  /\ ~data_task.update_successful
  /\ data_task.fail_streak = 5
  /\ data_task.execution_ms > 0
  /\ data_task.delay_real_ms = 40000 - data_task.execution_ms

\* C8: once the retry table is exhausted, every later failed attempt is followed
\* by a sleep planned at 60,000 ms: the fast delays are not used again while the
\* failure persists.
C8_NoFastRetryAfterExhaustion ==
  (data_task.pc = "sleep" /\ ~data_task.update_successful /\ data_task.fail_streak > 5) =>
    data_task.planned_ms = 60000

\* C9: after every call of TraficManager::update, show_first_departure is true,
\* last_toggle_time is the current time, and every scroll offset is 0 and every
\* kick-off flag false.
C9_UpdateClearsScroll ==
  (data_task.pc = "give" /\ data_task.update_successful) =>
    /\ show_first_departure
    /\ last_toggle_time = now
    /\ ScrollCleared(screen)

\* C10: an updateScreen with data present toggles exactly when 4,000 ms or more
\* have passed since last_toggle_time: then show_first_departure is flipped,
\* last_toggle_time becomes the current time and the frame is drawn from a fully
\* cleared scroll state; otherwise show_first_departure and last_toggle_time are
\* left as they were and the frame is drawn from the scroll state as it stands.
\* A restart of the chip is no step of either task and is left aside.
C10_ToggleEvery4000 ==
  [][ ProgramStep =>
    ( (screen_task.pc = "locked" /\ screen_task'.pc = "give" /\ monitors_per_line # << >>) =>
        IF now - last_toggle_time >= 4000
          THEN /\ show_first_departure' = ~show_first_departure
               /\ last_toggle_time' = now
               /\ screen' = DrawTraficOnScreen(FullResetScroll(screen), monitors_per_line,
                                               cfg, ~show_first_departure, now,
                                               SplittedStringCache, last_min_size).screen
          ELSE /\ show_first_departure' = show_first_departure
               /\ last_toggle_time' = last_toggle_time
               /\ screen' = DrawTraficOnScreen(screen, monitors_per_line,
                                               cfg, show_first_departure, now,
                                               SplittedStringCache, last_min_size).screen
    ) ]_vars

\* A tick that toggled to the second departure exactly 4,000 ms after an update,
\* while a text was scrolling.
C10_Witness ==
  /\ screen_task.pc = "give"
  /\ data_task.published # << >>
  /\ ~show_first_departure
  /\ last_toggle_time = now
  /\ now - data_task.sm_start \in {4000, 4000 + MaxNetDur}
  /\ ~ScrollCleared(screen)

\* The groups a fetch of rbl_id delivered to the task: the response FetchRBL
\* returned (which the cache holds), parsed and filtered.
FetchedGroups(rbl_id, filter) ==
  IF rbl_id \in DOMAIN cache
    THEN GetFilteredMonitors(GetMonitorsFromJson(cache[rbl_id].json_response), filter)
    ELSE << >>

OnlyFrom(bucket, groups, lineName) ==
  \A i \in 1..Len(bucket) :
    /\ \E j \in 1..Len(groups) : groups[j] = bucket[i]
    /\ lineName # EmptyStr => bucket[i].name = lineName

\* C11: with three lines and line 3 on a stop of its own, after every successful
\* update the bucket of line 3 holds only groups of the line-3 fetch (filtered by
\* line_3_filter, or lines_filter when that is empty, and by line 3's name when
\* set) and the buckets of lines 1 and 2 hold only groups of the main fetch.
C11_Line3FromOwnFetch ==
  ( /\ cfg.cnt_lines = 3
    /\ cfg.line_3_rbl # "" /\ cfg.line_3_rbl # cfg.lines_rbl
    /\ data_task.pc = "give" /\ data_task.update_successful ) =>
    /\ Len(monitors_per_line) = 3
    /\ OnlyFrom(monitors_per_line[3], FetchedGroups(cfg.line_3_rbl, Line3Filter(cfg)),
                GetLineName(cfg, 3))
    /\ \A i \in 1..2 :
         OnlyFrom(monitors_per_line[i], FetchedGroups(cfg.lines_rbl, cfg.lines_filter),
                  GetLineName(cfg, i))

\* C12: with three lines and line 3 on the main stop, no second FetchRBL is made
\* and the line-3 groups handed to update() are those a separate fetch returning
\* the same response would give: its parsed groups filtered by line_3_filter (or
\* lines_filter when that is empty).
C12_SharedStopAsSeparateFetch ==
  ( /\ cfg.cnt_lines = 3
    /\ cfg.line_3_rbl # "" /\ cfg.line_3_rbl = cfg.lines_rbl
    /\ data_task.pc = "take" ) =>
    /\ data_task.which = "main"
    /\ data_task.line3TrafficSet =
         GetFilteredMonitors(GetMonitorsFromJson(data_task.rbl_json), Line3Filter(cfg))

\* a is not after b in the lexicographic order of countdown lists.
LexLeq(a, b) ==
  \/ a = b
  \/ Len(a) < Len(b) /\ \A j \in 1..Len(a) : a[j] = b[j]
  \/ \E k \in 1..Len(a) :
       /\ k <= Len(b)
       /\ a[k] < b[k]
       /\ \A j \in 1..(k - 1) : a[j] = b[j]

\* C13: sortTrafic, which update() applies to every bucket, leaves the groups of
\* the bucket in ascending lexicographic order of their countdown lists (first
\* countdowns first, ties broken by later entries, a proper prefix before the
\* longer list), and keeps exactly the groups it was given.
C13_BucketsSortedLexicographically ==
  (probe.fn = "sortTrafic" /\ probe.done) =>
    /\ Len(probe.out) = Len(probe.in)
    /\ {probe.out[i] : i \in 1..Len(probe.out)} = {probe.in[i] : i \in 1..Len(probe.in)}
    /\ \A i \in 1..(Len(probe.out) - 1) :
         LexLeq(probe.out[i].countdown, probe.out[i + 1].countdown)

\* The example: countdowns [[5,9],[5,3],[2]] come out as [2],[5,3],[5,9].
C13_Witness ==
  /\ probe.fn = "sortTrafic" /\ probe.done
  /\ [i \in 1..Len(probe.in) |-> probe.in[i].countdown] = << <<5, 9>>, <<5, 3>>, <<2>> >>
  /\ [i \in 1..Len(probe.out) |-> probe.out[i].countdown] = << <<2>>, <<5, 3>>, <<5, 9>> >>

\* The entries of a comma-separated list: its maximal comma-free stretches.
ListEntries(f) ==
  { SubSeq(f, i, j) : <<i, j>> \in
      { ij \in (1..(Len(f) + 1)) \X (0..Len(f)) :
          /\ ij[2] >= ij[1] - 1
          /\ ij[1] = 1 \/ f[ij[1] - 1] = ","
          /\ ij[2] = Len(f) \/ f[ij[2] + 1] = ","
          /\ \A k \in ij[1]..ij[2] : f[k] # "," } }

\* C14: GetFilteredMonitors with a non-empty comma-separated filter returns exactly
\* the groups whose name is one of the filter's entries, in their original order
\* and each once; with an empty filter it returns its input unchanged.
C14_FilterKeepsListedNames ==
  (probe.fn = "GetFilteredMonitors" /\ probe.done) =>
    LET Listed(m) == m.name \in ListEntries(probe.filter)
    IN IF probe.filter = EmptyStr
         THEN probe.out = probe.in
         ELSE probe.out = SelectSeq(probe.in, Listed)

\* The example: "D,2" applied to groups named D, 2, U6 keeps D, 2.
C14_Witness ==
  /\ probe.fn = "GetFilteredMonitors" /\ probe.done
  /\ probe.filter = <<"D", ",", "2">>
  /\ [i \in 1..Len(probe.in) |-> probe.in[i].name] = <<Str_D, Str_2, Str_U6>>
  /\ [i \in 1..Len(probe.out) |-> probe.out[i].name] = <<Str_D, Str_2>>

\* C15: GetMonitorsPerDisplayLine returns exactly line_count buckets; the bucket
\* of display line i is the whole group sequence when line i has no name and
\* otherwise the subsequence, in the original order, of the groups named so.
C15_BucketsPerLine ==
  (probe.fn = "GetMonitorsPerDisplayLine" /\ probe.done) =>
    /\ Len(probe.out) = probe.config.cnt_lines
    /\ \A i \in 1..probe.config.cnt_lines :
         LET lineName == probe.config.line_names[i]
             Named(m) == m.name = lineName
         IN IF lineName = EmptyStr
              THEN probe.out[i] = probe.in
              ELSE probe.out[i] = SelectSeq(probe.in, Named)

\* Three lines named D, (none), U6 over groups D, 2, U6: buckets [D], all, [U6].
C15_Witness ==
  /\ probe.fn = "GetMonitorsPerDisplayLine" /\ probe.done
  /\ probe.config.cnt_lines = 3
  /\ probe.config.line_names = <<Str_D, EmptyStr, Str_U6>>
  /\ [i \in 1..Len(probe.in) |-> probe.in[i].name] = <<Str_D, Str_2, Str_U6>>
  /\ Len(probe.out) = 3
  /\ [i \in 1..Len(probe.out[1]) |-> probe.out[1][i].name] = <<Str_D>>
  /\ probe.out[2] = probe.in
  /\ [i \in 1..Len(probe.out[3]) |-> probe.out[3][i].name] = <<Str_U6>>

\* The text of a countdown on the display: its decimal digits, and one of the two
\* blinking squares for 0.
CountdownShown(n, txt) ==
  IF n = 0 THEN txt \in {SquareA, SquareB} ELSE txt = DecText(n)

\* C16: for each display line with a non-empty bucket, DrawTraficOnScreen shows
\* the first group of the bucket, and the countdown shown is the group's first
\* when show_first_departure is true, otherwise its second when it has at least
\* two, otherwise its first (nothing is shown for a group without countdowns).
C16_FirstGroupAndToggledCountdown ==
  (probe.fn = "DrawTraficOnScreen" /\ probe.done) =>
    \A i \in 1..2 :
      probe.mpl[i] # << >> =>
        LET group == probe.mpl[i][1]
            c == group.countdown
        IN /\ probe.out[i].right_txt = group.name
           /\ IF c = << >> THEN probe.out[i].left_txt = EmptyStr
              ELSE IF probe.show_first THEN CountdownShown(c[1], probe.out[i].left_txt)
              ELSE IF Len(c) >= 2 THEN CountdownShown(c[2], probe.out[i].left_txt)
              ELSE CountdownShown(c[1], probe.out[i].left_txt)

\* In the second toggle phase line 1 shows the second countdown of [4,12] and
\* line 2, whose first group has one countdown, shows that one.
C16_Witness ==
  /\ probe.fn = "DrawTraficOnScreen" /\ probe.done
  /\ ~probe.show_first
  /\ Len(probe.mpl[1]) = 2 /\ probe.mpl[1][1].countdown = <<4, 12>>
  /\ probe.out[1].left_txt = <<"1", "2">>
  /\ Len(probe.mpl[2]) = 2 /\ probe.mpl[2][1].countdown = <<4>>
  /\ probe.out[2].left_txt = <<"4">>

\* C17: whatever the number of failed attempts since the last successful update,
\* what updateScreen has just drawn is the data that update installed, every
\* line that had a group still having it; only while no update has succeeded yet
\* does updateScreen draw the empty structure, and that has exactly line_count
\* rows.
C17_FailuresKeepLastGoodData ==
  screen_task.pc = "give" =>
    IF data_task.published = << >>
      THEN /\ Len(monitors_per_line) = cfg.cnt_lines
           /\ \A i \in 1..cfg.cnt_lines : monitors_per_line[i] = << >>
      ELSE /\ monitors_per_line = data_task.published
           /\ \A i \in 1..Len(data_task.published) :
                data_task.published[i] # << >> =>
                  /\ monitors_per_line[i] # << >>
                  /\ ScreenEntityOf(i, monitors_per_line, cfg, show_first_departure, now,
                                    SplittedStringCache, screen.px_min_text_sprite).right_txt
                       = data_task.published[i][1].name

\* After more than five failed attempts in a row the screen has just been drawn
\* from the departures of the last successful update.
C17_Witness ==
  /\ screen_task.pc = "give"
  /\ data_task.fail_streak > num_retries
  /\ data_task.published # << >>
  /\ data_task.published[1] # << >>
  /\ monitors_per_line = data_task.published

\* C18: when GetJson returns nothing (failed call or empty body), FetchRBL stores
\* for that id the entry with the empty payload and is_valid false and returns the
\* empty payload; and an unforced FetchRBL that finds such an entry for its id
\* does not return it but goes on to the network call.
\* A restart of the chip is no step of either task and is left aside.
C18_FailedFetchNotServed ==
  [][ ProgramStep =>
    ( /\ ( /\ data_task.pc = "in_net"
           /\ data_task'.pc = "parse"
           /\ PayloadIsEmpty(data_task'.rbl_json) ) =>
           /\ data_task'.rbl_json = EmptyPayload
           /\ cache'[data_task.rbl_id] = CachedData(EmptyPayload, now, FALSE)
      /\ ( /\ data_task.pc = "fetch"
           /\ data_task'.pc # "fetch"
           /\ data_task.rbl_id \in DOMAIN cache
           /\ PayloadIsEmpty(cache[data_task.rbl_id].json_response) ) =>
           /\ data_task'.pc \in {"spacing", "getjson"}
           /\ ~data_task'.hit
    ) ]_vars

\* A request in flight for an id whose cache entry is a failed one younger than
\* the cache duration.
C18_Witness ==
  /\ data_task.pc = "in_net"
  /\ data_task.rbl_id \in DOMAIN cache
  /\ cache[data_task.rbl_id].json_response = EmptyPayload
  /\ ~cache[data_task.rbl_id].is_valid
  /\ now - cache[data_task.rbl_id].timestamp_ms < CACHE_DURATION_MS

\* An item that takes neither branch of the departure loop.
Unresolved(item) == ~item.departureTime

\* C19: a departure entry with neither the vehicle-level nor the line-level
\* fields contributes no group: GetMonitorsFromJson never returns a Monitor with
\* empty name and empty towards.
C19_NoUnnamedGroup ==
  (probe.fn = "GetMonitorsFromJson" /\ probe.done) =>
    \A i \in 1..Len(probe.out) :
      ~(probe.out[i].name = EmptyStr /\ probe.out[i].towards = EmptyStr)

\* Short of such entries the parser emits no unnamed group.
C19_UnnamedOnlyFromUnresolved ==
  (/\ probe.fn = "GetMonitorsFromJson" /\ probe.done
   /\ \A l \in 1..Len(probe.json.lines) :
        \A k \in 1..Len(probe.json.lines[l].departures) :
          ~Unresolved(probe.json.lines[l].departures[k])) =>
    \A i \in 1..Len(probe.out) :
      ~(probe.out[i].name = EmptyStr /\ probe.out[i].towards = EmptyStr)

\* C20: in every bucket of monitors_per_line each group's countdown list holds
\* non-negative integers in ascending order.
C20_CountdownsAscending ==
  \A i \in 1..Len(monitors_per_line) :
    \A g \in 1..Len(monitors_per_line[i]) :
      LET c == monitors_per_line[i][g].countdown
      IN /\ \A k \in 1..Len(c) : c[k] >= 0
         /\ \A k \in 1..(Len(c) - 1) : c[k] <= c[k + 1]

RowReset(scr, r) ==
  /\ \A l \in DOMAIN scr.vec_scrolls_coords[r] : scr.vec_scrolls_coords[r][l] = 0
  /\ \A l \in DOMAIN scr.vec_init_scrolls_coords[r] : ~scr.vec_init_scrolls_coords[r][l]

RowKept(before, after, r) ==
  /\ after.vec_scrolls_coords[r] = before.vec_scrolls_coords[r]
  /\ after.vec_init_scrolls_coords[r] = before.vec_init_scrolls_coords[r]

\* C21: for two snapshots of equal size passed to SelectiveReset, exactly the rows
\* whose content differs between the snapshots have their scroll offsets and
\* kick-off flags reset, and every row whose content is unchanged keeps them.
C21_ResetExactlyChangedRows ==
  (/\ probe.fn = "SelectiveReset" /\ probe.done
   /\ Len(probe.current) = Len(probe.future)) =>
    \A r \in 1..Len(probe.future) :
      IF probe.current[r] # probe.future[r]
        THEN RowReset(probe.out, r)
        ELSE RowKept(probe.scr, probe.out, r)

\* With an alert text on every row of both snapshots and two rows or more, the
\* rows reset are those whose alert text differs.
C21_HoldsForAlertRows ==
  (/\ probe.fn = "SelectiveReset" /\ probe.done
   /\ Len(probe.current) = Len(probe.future)
   /\ Len(probe.future) > 1
   /\ \A r \in 1..Len(probe.future) :
        /\ probe.current[r].description # EmptyStr
        /\ probe.future[r].description # EmptyStr) =>
    \A r \in 1..Len(probe.future) :
      IF probe.current[r].description # probe.future[r].description
        THEN RowReset(probe.out, r)
        ELSE RowKept(probe.scr, probe.out, r)

\* The bytes 0x80..0xBF, which continue a character of UTF-8.
Utf8Continuation ==
  { "80", "81", "82", "83", "84", "85", "86", "87", "88", "89", "8A", "8B", "8C", "8D", "8E", "8F",
    "90", "91", "92", "93", "94", "95", "96", "97", "98", "99", "9A", "9B", "9C", "9D", "9E", "9F",
    "A0", "A1", "A2", "A3", "A4", "A5", "A6", "A7", "A8", "A9", "AA", "AB", "AC", "AD", "AE", "AF",
    "B0", "B1", "B2", "B3", "B4", "B5", "B6", "B7", "B8", "B9", "BA", "BB", "BC", "BD", "BE", "BF" }

StartsCharacter(b) == b \notin Utf8Continuation

\* The number of characters of a text in UTF-8.
CharCount(str) == Len(SelectSeq(str, StartsCharacter))

\* The characters of a text kept by its first two wrapped sub-lines, as the
\* specification counts what the wrap retains.
RetainedCharacters(towards, w) ==
  LET wrapped == splitToString(towards, w)
  IN (IF Len(wrapped) >= 1 THEN CharCount(wrapped[1]) ELSE 0)
       + (IF Len(wrapped) >= 2 THEN CharCount(wrapped[2]) ELSE 0)

\* The bytes of a text kept by its first two wrapped sub-lines
\* (cnt_char_splitted_text).
RetainedBytes(towards, w) ==
  LET wrapped == splitToString(towards, w)
  IN (IF Len(wrapped) >= 1 THEN Len(wrapped[1]) ELSE 0)
       + (IF Len(wrapped) >= 2 THEN Len(wrapped[2]) ELSE 0)

WrappedLine(towards, w, j) ==
  IF j <= Len(splitToString(towards, w)) THEN splitToString(towards, w)[j] ELSE EmptyStr

\* C22: when the first two wrapped sub-lines of a destination keep less than half
\* of its characters, the display line shows one sub-line that is a prefix of the
\* raw text cut to fit the width, and an empty second sub-line; when they keep
\* half or more, the two wrapped sub-lines are shown.  An alert text, when there
\* is one, takes the second sub-line in both cases.
C22_HalfRuleForWrappedText ==
  (probe.fn = "MiddleText" /\ probe.done /\ probe.towards # EmptyStr) =>
    LET t == probe.towards
        w == probe.min_size
        second == IF probe.description # EmptyStr THEN probe.description
                  ELSE IF 2 * RetainedCharacters(t, w) < CharCount(t) THEN EmptyStr
                  ELSE WrappedLine(t, w, 2)
    IN /\ probe.out[2] = second
       /\ IF 2 * RetainedCharacters(t, w) < CharCount(t)
            THEN /\ Len(probe.out[1]) < Len(t)
                 /\ probe.out[1] = SubSeq(t, 1, Len(probe.out[1]))
                 /\ IsEnoughSpaceForMiddleText(w, probe.out[1])
            ELSE probe.out[1] = WrappedLine(t, w, 1)

\* The rule as the code applies it, on the bytes of the texts: it agrees with
\* the rule on characters for every text of ASCII characters.
C22_HalfRuleInBytes ==
  (probe.fn = "MiddleText" /\ probe.done /\ probe.towards # EmptyStr) =>
    LET t == probe.towards
        w == probe.min_size
        second == IF probe.description # EmptyStr THEN probe.description
                  ELSE IF 2 * RetainedBytes(t, w) < Len(t) THEN EmptyStr
                  ELSE WrappedLine(t, w, 2)
    IN /\ probe.out[2] = second
       /\ IF 2 * RetainedBytes(t, w) < Len(t)
            THEN /\ Len(probe.out[1]) < Len(t)
                 /\ probe.out[1] = SubSeq(t, 1, Len(probe.out[1]))
                 /\ IsEnoughSpaceForMiddleText(w, probe.out[1])
            ELSE probe.out[1] = WrappedLine(t, w, 1)

\* A single 12-character token in a width of 6 characters, no alert: a cut prefix
\* on the first sub-line, nothing on the second.
C22_Witness ==
  /\ probe.fn = "MiddleText" /\ probe.done
  /\ probe.towards = Txt_Hauptbahnhof
  /\ probe.min_size = 6 * px_char_12pt
  /\ probe.description = EmptyStr
  /\ splitToString(probe.towards, probe.min_size) = << >>
  /\ probe.out[1] # EmptyStr
  /\ probe.out[1] = SubSeq(Txt_Hauptbahnhof, 1, Len(probe.out[1]))
  /\ probe.out[2] = EmptyStr

\* C23: monitors_per_line is written only by UpdateDataTask (through update());
\* no step of ScreenUpdateTask changes its value.
\* A restart of the chip is no step of either task and is left aside.
C23_RenderNeverWritesBuckets ==
  [][ProgramStep => (screen_task' # screen_task => monitors_per_line' = monitors_per_line)]_vars

\* C23 as amended: a step of ScreenUpdateTask changes monitors_per_line only when
\* it is still the empty vector, no update having been made, and then to
\* line_count empty buckets; every other change is made by UpdateDataTask inside
\* its critical section.
\* A restart of the chip is no step of either task and is left aside.
C23_RenderWritesOnlyEmptyStructure ==
  [][ ProgramStep =>
    ( /\ screen_task' # screen_task =>
           \/ monitors_per_line' = monitors_per_line
           \/ /\ monitors_per_line = << >>
              /\ data_task.published = << >>
              /\ monitors_per_line' = [i \in 1..cfg.cnt_lines |-> << >>]
      /\ (screen_task' = screen_task /\ monitors_per_line' # monitors_per_line) =>
           /\ data_task.pc \in {"locked", "sort"}
           /\ dataMutex = "data"
    ) ]_vars

\* updateScreen has run on an installed update whose first bucket is empty and
\* left it as installed.
C23_Witness ==
  /\ screen_task.pc = "give"
  /\ data_task.published # << >>
  /\ monitors_per_line = data_task.published
  /\ monitors_per_line[1] = << >>
  /\ monitors_per_line[2] # << >>

ToggleState == <<show_first_departure, last_toggle_time>>
ScrollState == <<screen.vec_scrolls_coords, screen.vec_init_scrolls_coords>>

\* C24: the toggle state (show_first_departure, last_toggle_time) and the scroll
\* state (offsets and kick-off flags) are written only by steps of
\* ScreenUpdateTask; no step of UpdateDataTask writes them.
\* A restart of the chip is no step of either task and is left aside.
C24_OnlyRenderWritesToggleAndScroll ==
  [][ ProgramStep =>
    ( (ToggleState' # ToggleState \/ ScrollState' # ScrollState) =>
         screen_task' # screen_task ) ]_vars

\* C24 as amended: the scroll state is written only by steps of ScreenUpdateTask;
\* the toggle state is written by steps of ScreenUpdateTask and by the last
\* statements of update(), which UpdateDataTask runs holding dataMutex on a
\* successful attempt and which set show_first_departure to true and
\* last_toggle_time to the current time.
\* A restart of the chip is no step of either task and is left aside.
C24_DataTaskWritesToggleOnlyInUpdate ==
  [][ ProgramStep =>
    ( /\ ScrollState' # ScrollState => screen_task' # screen_task
      /\ (ToggleState' # ToggleState /\ screen_task' = screen_task) =>
           /\ data_task.pc = "sort" /\ data_task'.pc = "give"
           /\ data_task'.update_successful
           /\ dataMutex = "data"
           /\ show_first_departure'
           /\ last_toggle_time' = now
    ) ]_vars

\* update(), run by UpdateDataTask after a failed attempt, has just set the toggle
\* state while ScreenUpdateTask waits for the mutex.
C24_Witness ==
  /\ data_task.pc = "give" /\ data_task.update_successful
  /\ data_task.fail_streak > 0
  /\ dataMutex = "data"
  /\ screen_task.pc = "take"
  /\ show_first_departure /\ last_toggle_time = now
  /\ last_toggle_time > StartTime

\* The texts that are the decimal numerals of 1, 2 and 3.
LineCountNumerals == {DecText(n) : n \in cnt_min_lines..cnt_max_lines}

\* C25: the line count is always in 1..3: 2 after construction; SetLinesCount
\* with an integer outside 1..3, or with a string that is not one of the numerals
\* 1, 2, 3, stores 2; with a value inside 1..3 it stores that value; copying,
\* assigning and loading keep the range.
C25_LineCountValidated ==
  probe.fn = "Config" =>
    /\ probe.cnt_lines \in cnt_min_lines..cnt_max_lines
    /\ probe.copy \in cnt_min_lines..cnt_max_lines
    /\ probe.op = "Config" => probe.cnt_lines = cnt_default_lines
    /\ probe.op = "SetLinesCount(int)" =>
         probe.cnt_lines = IF probe.int_arg \in cnt_min_lines..cnt_max_lines
                             THEN probe.int_arg ELSE cnt_default_lines
    /\ probe.op = "SetLinesCount(String)" =>
         IF probe.str_arg \in LineCountNumerals
           THEN DecText(probe.cnt_lines) = probe.str_arg
           ELSE probe.cnt_lines = cnt_default_lines

\* The range, the integer setter and the numerals 1, 2, 3 taken alone; a text
\* without a digit stores 2.
C25_LineCountInRange ==
  probe.fn = "Config" =>
    /\ probe.cnt_lines \in cnt_min_lines..cnt_max_lines
    /\ probe.copy \in cnt_min_lines..cnt_max_lines
    /\ probe.op = "Config" => probe.cnt_lines = cnt_default_lines
    /\ probe.op = "SetLinesCount(int)" =>
         probe.cnt_lines = IF probe.int_arg \in cnt_min_lines..cnt_max_lines
                             THEN probe.int_arg ELSE cnt_default_lines
    /\ (probe.op = "SetLinesCount(String)" /\ probe.str_arg \in LineCountNumerals) =>
         DecText(probe.cnt_lines) = probe.str_arg
    /\ (probe.op = "SetLinesCount(String)"
          /\ \A k \in 1..Len(probe.str_arg) : ~IsDigit(probe.str_arg[k])) =>
         probe.cnt_lines = cnt_default_lines

\* C26: for a display line whose bucket is empty, DrawTraficOnScreen shows the
\* line's name and the marker "-" when the line has a name, and an empty name and
\* an empty countdown text when it has none.
C26_EmptyLineShowsNameAndDash ==
  (probe.fn = "EmptyLine" /\ probe.done) =>
    \A i \in 1..probe.config.cnt_lines :
      probe.mpl[i] = << >> =>
        IF probe.config.line_names[i] # EmptyStr
          THEN /\ probe.out[i].right_txt = probe.config.line_names[i]
               /\ probe.out[i].left_txt = <<"-">>
          ELSE /\ probe.out[i].right_txt = EmptyStr
               /\ probe.out[i].left_txt = EmptyStr

\* Three lines without departures: line 1 named D, line 2 unnamed, line 3 named U6.
C26_Witness ==
  /\ probe.fn = "EmptyLine" /\ probe.done
  /\ probe.config.cnt_lines = 3
  /\ probe.config.line_names = <<Str_D, EmptyStr, Str_U6>>
  /\ \A i \in 1..3 : probe.mpl[i] = << >>
  /\ probe.out[1].right_txt = Str_D /\ probe.out[1].left_txt = <<"-">>
  /\ probe.out[2].right_txt = EmptyStr /\ probe.out[2].left_txt = EmptyStr
  /\ probe.out[3].right_txt = Str_U6 /\ probe.out[3].left_txt = <<"-">>

\* C27: a FetchRBL answered from the cache returns at once, without the spacing
\* wait that depends on last_api_call_ms, and changes neither last_api_call_ms
\* nor the cache; last_api_call_ms changes only when GetJson has returned, and
\* then to the time of the return, which is also the timestamp of the entry
\* stored; the cache changes at no other step.
\* A restart of the chip is no step of either task and is left aside.
C27_HitLeavesCallTimeAlone ==
  [][ ProgramStep =>
    ( /\ (data_task.pc = "fetch" /\ data_task'.pc # "fetch" /\ data_task'.hit) =>
           /\ data_task'.pc = "parse"
           /\ last_api_call_ms' = last_api_call_ms
           /\ cache' = cache
           /\ net' = net
      /\ last_api_call_ms' # last_api_call_ms =>
           /\ data_task.pc = "in_net" /\ data_task'.pc = "parse"
           /\ last_api_call_ms' = now
           /\ cache'[data_task.rbl_id].timestamp_ms = last_api_call_ms'
      /\ cache' # cache => data_task.pc = "in_net" /\ data_task'.pc = "parse"
    ) ]_vars

\* A fetch has just been answered from the cache less than 3,000 ms after the
\* last network call.
C27_Witness ==
  /\ data_task.pc = "parse"
  /\ data_task.hit
  /\ data_task.current_ms = now
  /\ last_api_call_ms > 0
  /\ now - last_api_call_ms < SEQUENTIAL_DELAY_MS
  /\ cache[data_task.rbl_id].timestamp_ms < last_api_call_ms

\* C28: when every network call succeeds with departures, the FetchRBL of the
\* main stop id is never answered from the cache: every iteration of the
\* acquisition loop parses a payload fetched in that iteration.
C28_PeriodicPollNeverCached ==
  (data_task.pc = "parse" /\ data_task.which = "main") => ~data_task.hit

\* When the responses arrive in the millisecond the request was made, the entry
\* is exactly 60,000 ms old at the next poll and is not served.
C28_InstantAnswersNeverCached ==
  (/\ data_task.pc = "parse" /\ data_task.which = "main"
   /\ \A id \in DOMAIN cache : cache[id].timestamp_ms = StartTime) => ~data_task.hit

\* C29: every reattempt after a failed attempt makes a network call for the main
\* stop id instead of parsing the cached payload again, whether the attempt
\* failed on an empty fetch or on a payload that parsed or filtered to nothing.
C29_RetryFetchesAgain ==
  (data_task.pc = "parse" /\ data_task.which = "main" /\ data_task.retry_attempt > 0) =>
    ~data_task.hit

\* The reattempts after an empty or failed fetch of the main stop id do make a
\* network call.
\* A restart of the chip is no step of either task and is left aside.
C29_RetryAfterEmptyFetchFetchesAgain ==
  [][ ProgramStep =>
    ( ( /\ data_task.pc = "fetch" /\ data_task'.pc # "fetch"
        /\ data_task.which = "main" /\ data_task.retry_attempt > 0
        /\ data_task.rbl_id \in DOMAIN cache
        /\ PayloadIsEmpty(cache[data_task.rbl_id].json_response) ) =>
        ~data_task'.hit
    ) ]_vars

\* C30: with three lines and a line-3 stop of its own, an update installed from an
\* empty main result and a non-empty line-3 result leaves display lines 1 and 2
\* with the groups of the last successful main fetch.
\* A restart of the chip is no step of either task and is left aside.
C30_PartialFailureKeepsMainLines ==
  [][ ProgramStep =>
    ( ( /\ data_task.pc = "locked" /\ data_task'.pc = "sort"
        /\ cfg.cnt_lines = 3 /\ cfg.line_3_rbl # "" /\ cfg.line_3_rbl # cfg.lines_rbl
        /\ data_task.tempTrafficSet = << >>
        /\ data_task.line3TrafficSet # << >>
        /\ data_task.published # << >> ) =>
        /\ monitors_per_line'[1] = data_task.published[1]
        /\ monitors_per_line'[2] = data_task.published[2]
    ) ]_vars

\* What such an update does install: nothing on lines 1 and 2.
\* A restart of the chip is no step of either task and is left aside.
C30_PartialFailureEmptiesMainLines ==
  [][ ProgramStep =>
    ( ( /\ data_task.pc = "locked" /\ data_task'.pc = "sort"
        /\ cfg.cnt_lines = 3
        /\ data_task.tempTrafficSet = << >>
        /\ data_task.line3TrafficSet # << >> ) =>
        /\ monitors_per_line'[1] = << >>
        /\ monitors_per_line'[2] = << >>
    ) ]_vars

(***************************************************************************)
(* The scroll state of one sub-line over one render tick.                  *)
(***************************************************************************)
\* The width DrawMiddleText leaves for the text of the probe's screen.
MidWidth ==
  tft_width - probe.scr.px_max_width_countdown_text
    - probe.scr.px_max_width_name_text - px_margin * 4

\* sprite.width() of the tick.
MidSprite == IF MidWidth < 1 THEN 0 ELSE MidWidth

MidTicked == probe.fn = "DrawMiddleText" /\ probe.done

MidTextWidth(l) == CalculateFontWidth_px("12pt", probe.lines[l])

\* The offset the tick starts from: the sprite width when the offset had
\* passed the left end of the text.
MidStart(l) ==
  IF probe.scr.vec_scrolls_coords[probe.idx_row][l] < 0 - MidTextWidth(l)
    THEN MidSprite ELSE probe.scr.vec_scrolls_coords[probe.idx_row][l]

MidKicksOff(l) ==
  /\ l > 1
  /\ Len(probe.lines[l]) > 0
  /\ ~probe.scr.vec_init_scrolls_coords[probe.idx_row][l]

\* C31: on a render tick of a sub-line whose text is wider than the available
\* width the offset, set back to the sprite width first when it was below
\* minus the text width, goes down by px_scrool_per_frame and the kick-off
\* flag stays, except that a non-empty second sub-line not yet kicked off is
\* put at the sprite width with its flag set; a fitting text whose offset was
\* below minus its width continues from the sprite width; the tick changes
\* no offset and no flag of another row or of a sub-line it does not draw.
C31_ScrollStepPerSubLine ==
  MidTicked =>
    /\ \A l \in 1..Len(probe.lines) :
         LET x == probe.out.vec_scrolls_coords[probe.idx_row][l]
             k == probe.out.vec_init_scrolls_coords[probe.idx_row][l]
             k0 == probe.scr.vec_init_scrolls_coords[probe.idx_row][l]
         IN /\ (MidTextWidth(l) > MidWidth /\ MidKicksOff(l)) => (x = MidSprite /\ k)
            /\ (MidTextWidth(l) > MidWidth /\ ~MidKicksOff(l)) =>
                 (x = MidStart(l) - px_scrool_per_frame /\ k = k0)
            /\ (MidTextWidth(l) <= MidWidth
                  /\ probe.scr.vec_scrolls_coords[probe.idx_row][l] < 0 - MidTextWidth(l)) =>
                 x \in {0, MidSprite}
    /\ \A r \in 1..probe.scr.cnt_rows, l \in 1..cnt_screen_lines_per_rows :
         (r # probe.idx_row \/ l > Len(probe.lines)) =>
           /\ probe.out.vec_scrolls_coords[r][l] = probe.scr.vec_scrolls_coords[r][l]
           /\ probe.out.vec_init_scrolls_coords[r][l] = probe.scr.vec_init_scrolls_coords[r][l]

\* A wide first sub-line whose offset had passed its left end has been drawn
\* next to a second sub-line that was kicked off by the same tick, while the
\* other row kept its running scroll.
C31_Witness ==
  /\ MidTicked
  /\ Len(probe.lines) = 2
  /\ MidTextWidth(1) > MidWidth
  /\ probe.scr.vec_scrolls_coords[probe.idx_row][1] < 0 - MidTextWidth(1)
  /\ probe.out.vec_scrolls_coords[probe.idx_row][1] = MidSprite - px_scrool_per_frame
  /\ MidTextWidth(2) > MidWidth
  /\ MidKicksOff(2)
  /\ probe.out.vec_scrolls_coords[probe.idx_row][2] = MidSprite
  /\ \E r \in 1..probe.scr.cnt_rows :
       r # probe.idx_row /\ probe.out.vec_scrolls_coords[r][1] < 0

\* C32: after a render tick of a sub-line whose text fits the available
\* width, the sub-line's offset is 0 and its kick-off flag is false, whatever
\* the offset was before.
C32_FittingTextResetsScroll ==
  MidTicked =>
    \A l \in 1..Len(probe.lines) :
      MidTextWidth(l) <= MidWidth =>
        /\ probe.out.vec_scrolls_coords[probe.idx_row][l] = 0
        /\ ~probe.out.vec_init_scrolls_coords[probe.idx_row][l]

\* What the tick does for a fitting text: the reset happens when the offset
\* the tick starts from is to the right of the text's width, and otherwise
\* offset and flag stay as they are.
C32_ResetOnlyRightOfTextWidth ==
  MidTicked =>
    \A l \in 1..Len(probe.lines) :
      MidTextWidth(l) <= MidWidth =>
        IF MidTextWidth(l) < MidStart(l)
          THEN /\ probe.out.vec_scrolls_coords[probe.idx_row][l] = 0
               /\ ~probe.out.vec_init_scrolls_coords[probe.idx_row][l]
          ELSE /\ probe.out.vec_scrolls_coords[probe.idx_row][l] = MidStart(l)
               /\ probe.out.vec_init_scrolls_coords[probe.idx_row][l]
                    = probe.scr.vec_init_scrolls_coords[probe.idx_row][l]

(***************************************************************************)
(* The prefix shown when the wrap keeps too little of the destination.     *)
(***************************************************************************)
\* The length of the longest prefix of a text that fits the width.
LongestFit(towards, w) ==
  CHOOSE p \in 0..Len(towards) :
    /\ IsEnoughSpaceForMiddleText(w, SubSeq(towards, 1, p))
    /\ \A q \in (p + 1)..Len(towards) : ~IsEnoughSpaceForMiddleText(w, SubSeq(towards, 1, q))

FallbackApplies ==
  /\ probe.fn = "MiddleText" /\ probe.done
  /\ probe.towards # EmptyStr
  /\ 2 * RetainedBytes(probe.towards, probe.min_size) < Len(probe.towards)

\* C33: when the wrap keeps less than half of the destination, the first
\* sub-line is the longest prefix of the destination that fits the available
\* width without its last 2 characters (empty when that prefix has fewer than
\* 2 characters), and the second sub-line is empty (it holds the alert text
\* when the group has one).
C33_FallbackIsFittingPrefixLessTwo ==
  FallbackApplies =>
    LET p == LongestFit(probe.towards, probe.min_size)
    IN /\ probe.out[1] = IF p >= 2 THEN SubSeq(probe.towards, 1, p - 2) ELSE EmptyStr
       /\ probe.description = EmptyStr => probe.out[2] = EmptyStr

\* What the scan collects: one character more than the longest fitting prefix
\* (the whole text when it fits), of which the last 2 are removed.
C33_FallbackIsScannedLessTwo ==
  FallbackApplies =>
    LET p == LongestFit(probe.towards, probe.min_size)
        scanned == IF p < Len(probe.towards) THEN p + 1 ELSE p
    IN /\ probe.out[1] = IF scanned >= 2 THEN SubSeq(probe.towards, 1, scanned - 2)
                                          ELSE EmptyStr
       /\ probe.description = EmptyStr => probe.out[2] = EmptyStr

(***************************************************************************)
(* The wrap cache against a fresh wrap.                                    *)
(***************************************************************************)
\* The destinations of the installed groups.
InstalledTexts ==
  UNION { {monitors_per_line[i][j].towards : j \in 1..Len(monitors_per_line[i])} :
            i \in 1..Len(monitors_per_line) }

\* C34: in every state, a lookup of any cached or installed destination in
\* the wrap cache returns the sub-lines a fresh splitToString gives for the
\* screen's current available width; the entries the cache holds were
\* computed for the width of the previous lookup.
C34_CacheServesFreshWrap ==
  /\ \A k \in DOMAIN SplittedStringCache :
       SplittedStringCache[k] = splitToString(k, last_min_size)
  /\ \A k \in (DOMAIN SplittedStringCache) \cup InstalledTexts :
       getSplittedStringFromCache(
           CacheChecked(SplittedStringCache, last_min_size, screen.px_min_text_sprite),
           k, screen.px_min_text_sprite)
         = splitToString(k, screen.px_min_text_sprite)

\* The cache holds a wrap computed for a width that is no longer the
\* screen's, and that wrap differs from the one for the current width.
C34_Witness ==
  /\ last_min_size # screen.px_min_text_sprite
  /\ \E k \in DOMAIN SplittedStringCache :
       SplittedStringCache[k] # splitToString(k, screen.px_min_text_sprite)

(***************************************************************************)
(* A response that does not parse.                                         *)
(***************************************************************************)
\* The groups the task holds for the response it parsed last.
ParsedSet(task) ==
  IF task.which = "main" THEN task.tempTrafficSet ELSE task.line3TrafficSet

\* C35: for an empty or malformed response GetMonitorsFromJson returns no
\* groups, and UpdateDataTask goes on (to the line-3 fetch, to the mutex and
\* from there to its next attempt) no sooner than ms_error_resset_delay after
\* the failed parse, waiting without dataMutex.
\* A restart of the chip is no step of either task and is left aside.
C35_ParseFailureWaitsUnlocked ==
  [][ ProgramStep =>
    ( /\ (data_task.pc = "parse" /\ data_task' # data_task
            /\ ~PayloadParses(data_task.rbl_json)) =>
           /\ data_task'.pc = "parsed"
           /\ ParsedSet(data_task') = << >>
           /\ data_task'.wake = now + ms_error_resset_delay
           /\ dataMutex' # "data"
      /\ (data_task.pc = "parsed" /\ ~PayloadParses(data_task.rbl_json)) =>
           /\ dataMutex # "data"
           /\ data_task' # data_task =>
                /\ now >= data_task.wake
                /\ data_task'.pc \in {"fetch", "take"}
    ) ]_vars

\* The main response was malformed, ms_error_resset_delay has passed and the
\* task is about to fetch the stop of line 3.
C35_Witness ==
  /\ data_task.pc = "fetch"
  /\ data_task.which = "line3"
  /\ data_task.rbl_json = JunkPayload
  /\ data_task.tempTrafficSet = << >>
  /\ now >= data_task.wake
  /\ data_task.wake >= StartTime + ms_error_resset_delay

(***************************************************************************)
(* Progress of the two tasks.                                              *)
(***************************************************************************)
\* UpdateDataTask is inside an attempt: between the top of the retry loop
\* body and the computation of its sleep.
InAttempt == data_task.pc \notin {"attempt", "sleep"}

\* The clock has made its last tick.
ClockEnded == now + Quantum > env.horizon

\* C36: with HTTP calls that return, both tasks scheduled fairly and a last
\* restart of the chip, the
\* clock always reaches the end of the modelled time (no state before it
\* blocks both tasks for good), the wait for request spacing is at most
\* SEQUENTIAL_DELAY_MS, every attempt of UpdateDataTask reaches its sleep,
\* and every time ScreenUpdateTask is due it gets dataMutex and runs
\* updateScreen, also when every fetch fails.
C36_TasksNeverBlockForever ==
  /\ <>ClockEnded
  /\ [](data_task.pc = "spacing" => data_task.wake - now <= SEQUENTIAL_DELAY_MS)
  /\ (InAttempt ~> (data_task.pc = "sleep" \/ ClockEnded))
  /\ ((screen_task.pc = "take" /\ (now >= screen_task.wake \/ ~ClockEnded))
        ~> (screen_task.pc = "locked" /\ dataMutex = "screen"))
  /\ (screen_task.pc = "locked" ~> screen_task.pc = "give")

\* Well into the outage, after two failed attempts, the render task holds
\* the mutex while UpdateDataTask waits for it.
C36_Witness ==
  /\ now >= OutageFrom + ms_error_resset_delay
  /\ ~ClockEnded
  /\ data_task.fail_streak >= 2
  /\ data_task.pc = "take"
  /\ screen_task.pc = "locked"
  /\ dataMutex = "screen"

(***************************************************************************)
(* The discipline of dataMutex.                                            *)
(***************************************************************************)
DataInCritical == data_task.pc \in {"locked", "sort", "give"}

ScreenInCritical == screen_task.pc \in {"locked", "give"}

\* C37: a task between its take and its give holds dataMutex, so the two
\* tasks are never both between them; every step that reads or writes
\* monitors_per_line, show_first_departure, last_toggle_time or the screen's
\* scroll offsets and kick-off flags is a step of the task that holds the
\* mutex, inside its critical section; and a task that sleeps or waits does
\* not hold the mutex.
\* A restart of the chip is no step of either task and is left aside.
C37_SharedStateUnderMutex ==
  [][ ProgramStep =>
    ( /\ DataInCritical => dataMutex = "data"
      /\ ScreenInCritical => dataMutex = "screen"
      /\ ~(DataInCritical /\ ScreenInCritical)
      /\ (~DataInCritical) => dataMutex # "data"
      /\ (~ScreenInCritical) => dataMutex # "screen"
      /\ (managerVars' # managerVars \/ screen' # screen) =>
           \/ data_task.pc \in {"locked", "sort"} /\ dataMutex = "data"
                /\ screen_task' = screen_task
           \/ screen_task.pc = "locked" /\ dataMutex = "screen"
                /\ data_task' = data_task
    ) ]_vars

\* The render task is due and waits for the mutex while update() sorts the
\* buckets it has installed.
C37_Witness ==
  /\ screen_task.pc = "take"
  /\ now >= screen_task.wake
  /\ data_task.pc = "sort"
  /\ dataMutex = "data"
  /\ monitors_per_line # << >>

(***************************************************************************)
(* The group a sorted bucket shows.                                        *)
(***************************************************************************)
SortDone == probe.fn = "sortTrafic" /\ probe.done

\* The groups of the bucket handed to sortTrafic that have a countdown.
WithCountdown == {i \in 1..Len(probe.in) : probe.in[i].countdown # << >>}

\* C38: when a bucket has a group with a countdown, element 0 after sortTrafic
\* has a countdown, and its first countdown is the least first countdown of
\* the bucket's groups.
C38_ShownGroupHasLeastCountdown ==
  (SortDone /\ WithCountdown # {}) =>
    /\ probe.out[1].countdown # << >>
    /\ \A i \in WithCountdown : probe.out[1].countdown[1] <= probe.in[i].countdown[1]

\* What the comparison of the countdown vectors gives: a group without
\* countdowns comes first when the bucket has one, and otherwise the first
\* group has the least first countdown.
C38_EmptyCountdownSortsFirst ==
  (SortDone /\ probe.in # << >>) =>
    IF WithCountdown # 1..Len(probe.in)
      THEN probe.out[1].countdown = << >>
      ELSE \A i \in WithCountdown : probe.out[1].countdown[1] <= probe.in[i].countdown[1]

(***************************************************************************)
(* Buckets and screen rows.                                                *)
(***************************************************************************)
\* C39: once updateScreen has made the empty structure or update() has
\* installed data, monitors_per_line has as many buckets as the configuration
\* has lines, which is the number of rows the Screen was constructed with and
\* the number of rows of its scroll offsets and kick-off flags, each row with
\* cnt_screen_lines_per_rows entries; every display line drawn has a bucket
\* and a row.
C39_BucketsMatchScreenRows ==
  /\ screen.cnt_rows = cfg.cnt_lines
  /\ DOMAIN screen.vec_scrolls_coords = 1..screen.cnt_rows
  /\ DOMAIN screen.vec_init_scrolls_coords = 1..screen.cnt_rows
  /\ \A r \in 1..screen.cnt_rows :
       /\ DOMAIN screen.vec_scrolls_coords[r] = 1..cnt_screen_lines_per_rows
       /\ DOMAIN screen.vec_init_scrolls_coords[r] = 1..cnt_screen_lines_per_rows
  /\ monitors_per_line # << >> =>
       /\ Len(monitors_per_line) = cfg.cnt_lines
       /\ Len(monitors_per_line) = screen.cnt_rows

\* Three lines, the third on a stop of its own: update() has installed three
\* buckets, the third from the line-3 data, and the render task has drawn
\* them.
C39_Witness ==
  /\ cfg.cnt_lines = cnt_max_lines
  /\ Len(monitors_per_line) = cnt_max_lines
  /\ monitors_per_line[cnt_max_lines] # << >>
  /\ data_task.published = monitors_per_line
  /\ screen_task.pc = "give"
  /\ screen.px_min_text_sprite < INT_MAX

(***************************************************************************)
(* Widths of the wrapped sub-lines.                                        *)
(***************************************************************************)
SplitDone == probe.fn = "splitToString" /\ probe.done

\* The width is the sum of the widths of the characters.
AdditiveMeasure == env.font.kern = 0

  /\ probe.out.prefix # << >>
====
